---- MODULE Spec2Model ----
(***************************************************************************)
(* Model of the debt calculation utilities of Divix (src/unnamed/part_005):*)
(* simplifyDebts, simplifyCurrencyDebts, calculateNetBalances,             *)
(* optimizeSettlementOrder, calculateUserExposure, validateDebtMatrix and  *)
(* groupBy.                                                                *)
(*                                                                         *)
(* Numbers.  The source computes on binary doubles.  A Debt amount and a   *)
(* UserBalance balance n of the model denote the double n / Scale; Scale   *)
(* is a power of two, so every such value, every sum and difference of     *)
(* them and every product n / Scale * 100 is exact in double arithmetic    *)
(* and the model's integer arithmetic is the code's arithmetic.  The       *)
(* literal 0.01 is not such a value: it lies strictly between 10 / 1024    *)
(* and 11 / 1024, and a comparison with it is the comparison               *)
(* n * 100 <> Scale.  A Settlement amount is the result of                 *)
(* Math.round(x * 100) / 100 and is counted in hundredths: amount k of a   *)
(* Settlement denotes the double nearest to k / 100.                       *)
(*                                                                         *)
(* Amounts off that grid (0.1, 0.3, the literal 0.01 itself) are modelled  *)
(* as the doubles they are, in the section "Doubles off the grid": sign    *)
(* and magnitude, the magnitude a whole number of 2^-59, every sum,        *)
(* difference, product and quotient rounded to 53 bits, to nearest and     *)
(* ties to even, as the hardware rounds it.  The definitions named         *)
(* ...Double are the same lines of the source computed on those values.    *)
(***************************************************************************)
EXTENDS Integers, Sequences, FiniteSets, TLC

Scale == 1024

\* 0.01 = 1 / EpsilonInverse, the literal of lines 92, 93, 107, 121, 122, 229.
EpsilonInverse == 100

\* Math.round(settlementAmount * 100) / 100
RoundFactor == 100

\* ------------------------------------------------------------------------
\* Bounds of the input sets.
MaxDebts == 3
MaxSettlements == 3

\* ------------------------------------------------------------------------
\* Small arithmetic: Math.min, Math.abs, the comparisons with 0.01.

Min(a, b) == IF a < b THEN a ELSE b

Abs(a) == IF a < 0 THEN 0 - a ELSE a

RECURSIVE Pow2(_)
\* 2^k
Pow2(k) == IF k = 0 THEN 1 ELSE 2 * Pow2(k - 1)

\* A slip in the comparisons of lines 92 and 107: x > 0, the tolerance forgotten.
GreaterThanZero(n) == n > 0

\* x > 0.01
GreaterThanEpsilon(n) == n * EpsilonInverse > Scale

\* x < -0.01
LessThanMinusEpsilon(n) == n * EpsilonInverse < 0 - Scale

\* Math.abs(x) < 0.01
AbsBelowEpsilon(n) == Abs(n) * EpsilonInverse < Scale

\* Math.abs(x) > 0.01
AbsAboveEpsilon(n) == Abs(n) * EpsilonInverse > Scale

\* A slip in line 111: Math.round(x) / 100, the factor 100 forgotten.
Round2Unscaled(n) == (n + Scale \div 2) \div Scale

\* Math.round(x * 100) / 100, the result counted in hundredths.  Math.round
\* rounds to the nearest integer, a tie towards +Infinity: floor(y + 0.5).
Round2(n) == (n * RoundFactor + Scale \div 2) \div Scale

\* ------------------------------------------------------------------------
\* Sequences.

\* All sequences over S of length at most n.
SeqsUpTo(S, n) == UNION {[1..k -> S] : k \in 0..n}

\* ------------------------------------------------------------------------
\* new Map<string, number>(): the entries in insertion order.

RECURSIVE MapIndex(_, _, _)
\* Index of key in the entries from position k on, 0 when absent.
MapIndex(m, key, k) ==
    IF k > Len(m) THEN 0
    ELSE IF m[k].key = key THEN k
    ELSE MapIndex(m, key, k + 1)

\* balanceMap.get(key) || 0
MapGetOrZero(m, key) ==
    LET k == MapIndex(m, key, 1) IN IF k = 0 THEN 0 ELSE m[k].value

\* A slip in the map: a key set again is moved behind the other keys
\* (delete, then set).
MapSetMoveToEnd(m, key, value) ==
    LET IsOther(e) == e.key # key
    IN  Append(SelectSeq(m, IsOther), [key |-> key, value |-> value])

\* balanceMap.set(key, value): an existing key keeps its position.
MapSet(m, key, value) ==
    LET k == MapIndex(m, key, 1) IN
    IF k = 0 THEN Append(m, [key |-> key, value |-> value])
    ELSE [m EXCEPT ![k].value = value]

\* ------------------------------------------------------------------------
\* groupBy(array, 'currency') and Object.entries of its result.

\* Currency codes that are canonical array indices: an object lists these
\* keys first, in ascending numeric order, before its other keys.
ArrayIndexKeys == {"840", "978"}

ArrayIndexValue(key) == IF key = "840" THEN 840 ELSE 978

\* String.prototype.localeCompare on the currency codes of the model:
\* digits sort before letters.
LocaleRank(code) ==
    CASE code = "840" -> 1
      [] code = "978" -> 2
      [] code = "EUR" -> 3
      [] code = "USD" -> 4

localeCompare(a, b) ==
    IF LocaleRank(a) < LocaleRank(b) THEN 0 - 1
    ELSE IF LocaleRank(a) > LocaleRank(b) THEN 1 ELSE 0

RECURSIVE GroupIndex(_, _, _)
GroupIndex(groups, key, k) ==
    IF k > Len(groups) THEN 0
    ELSE IF groups[k].key = key THEN k
    ELSE GroupIndex(groups, key, k + 1)

RECURSIVE groupByFrom(_, _, _)
\* The reduce of groupBy over array[k..], groups being the accumulator;
\* the result lists the keys in the order of their creation.
groupByFrom(array, k, groups) ==
    IF k > Len(array) THEN groups
    ELSE LET groupKey == array[k].currency
             g == GroupIndex(groups, groupKey, 1)
         IN  IF g = 0
             THEN groupByFrom(array, k + 1,
                      Append(groups, [key |-> groupKey, items |-> <<array[k]>>]))
             ELSE groupByFrom(array, k + 1,
                      [groups EXCEPT ![g].items = Append(@, array[k])])

groupBy(array) == groupByFrom(array, 1, <<>>)

RECURSIVE InsertByIndexValue(_, _)
\* sorted: entries with array-index keys in ascending order; e is inserted.
InsertByIndexValue(sorted, e) ==
    IF sorted = <<>> THEN <<e>>
    ELSE IF ArrayIndexValue(e.key) < ArrayIndexValue(Head(sorted).key)
         THEN <<e>> \o sorted
         ELSE <<Head(sorted)>> \o InsertByIndexValue(Tail(sorted), e)

RECURSIVE SortByIndexValue(_)
SortByIndexValue(es) ==
    IF es = <<>> THEN <<>>
    ELSE InsertByIndexValue(SortByIndexValue(Tail(es)), Head(es))

\* Object.entries(obj): array-index keys ascending, then the other keys in
\* the order of their creation.
ObjectEntries(groups) ==
    LET IsIndexKey(e) == e.key \in ArrayIndexKeys
        IsNameKey(e) == e.key \notin ArrayIndexKeys
    IN  SortByIndexValue(SelectSeq(groups, IsIndexKey)) \o SelectSeq(groups, IsNameKey)

\* ------------------------------------------------------------------------
\* calculateNetBalances(debts, currency)

RECURSIVE balanceMapFromStale(_, _, _)
\* A slip in lines 142-147: both balances are read before either is written.
balanceMapFromStale(ds, k, balanceMap) ==
    IF k > Len(ds) THEN balanceMap
    ELSE LET debt == ds[k]
             currentDebtorBalance == MapGetOrZero(balanceMap, debt.from)
             currentCreditorBalance == MapGetOrZero(balanceMap, debt.to)
             m1 == MapSet(balanceMap, debt.from, currentDebtorBalance - debt.amount)
             m2 == MapSet(m1, debt.to, currentCreditorBalance + debt.amount)
         IN  balanceMapFromStale(ds, k + 1, m2)

RECURSIVE balanceMapFrom(_, _, _)
\* The forEach over debts[k..] on balanceMap.
balanceMapFrom(ds, k, balanceMap) ==
    IF k > Len(ds) THEN balanceMap
    ELSE LET debt == ds[k]
             currentDebtorBalance == MapGetOrZero(balanceMap, debt.from)
             m1 == MapSet(balanceMap, debt.from, currentDebtorBalance - debt.amount)
             currentCreditorBalance == MapGetOrZero(m1, debt.to)
             m2 == MapSet(m1, debt.to, currentCreditorBalance + debt.amount)
         IN  balanceMapFrom(ds, k + 1, m2)

calculateNetBalances(ds, cur) ==
    LET balanceMap == balanceMapFrom(ds, 1, <<>>) IN
    [k \in 1..Len(balanceMap) |->
        [userId |-> balanceMap[k].key, balance |-> balanceMap[k].value, currency |-> cur]]

\* ------------------------------------------------------------------------
\* simplifyCurrencyDebts(debts, currency).  The state of one call is a
\* record: balances, the array calculateNetBalances returned; creditors and
\* debtors, the filtered arrays, which hold references to the objects of
\* balances and are modelled as sequences of indices into balances; the
\* cursors i and j (0-based as in the source); settlements.

\* Line 92: b.balance > 0.01
IsCreditor(b) == GreaterThanEpsilon(b.balance)

\* Line 93: b.balance < -0.01
IsDebtor(b) == LessThanMinusEpsilon(b.balance)

RECURSIVE CreditorsFrom(_, _)
\* balances.filter(b => b.balance > 0.01) over bs[k..]: the indices of the
\* objects kept, in the order of bs.
CreditorsFrom(bs, k) ==
    IF k > Len(bs) THEN <<>>
    ELSE IF IsCreditor(bs[k]) THEN <<k>> \o CreditorsFrom(bs, k + 1)
    ELSE CreditorsFrom(bs, k + 1)

RECURSIVE DebtorsFrom(_, _)
\* balances.filter(b => b.balance < -0.01) over bs[k..].
DebtorsFrom(bs, k) ==
    IF k > Len(bs) THEN <<>>
    ELSE IF IsDebtor(bs[k]) THEN <<k>> \o DebtorsFrom(bs, k + 1)
    ELSE DebtorsFrom(bs, k + 1)

\* Lines 89-98: the state on entry to the while loop.
MatchStart(ds, cur) ==
    LET bs == calculateNetBalances(ds, cur) IN
    [balances |-> bs,
     creditors |-> CreditorsFrom(bs, 1),
     debtors |-> DebtorsFrom(bs, 1),
     i |-> 0, j |-> 0,
     settlements |-> <<>>,
     currency |-> cur]

\* Line 100: the loop condition.
MatchCond(st) == st.i < Len(st.creditors) /\ st.j < Len(st.debtors)

\* A slip in line 105: the whole credit is transferred, Math.min forgotten.
SettlementAmountNoMin(st) == st.balances[st.creditors[st.i + 1]].balance

\* Line 105
SettlementAmount(st) ==
    Min(st.balances[st.creditors[st.i + 1]].balance,
        0 - st.balances[st.debtors[st.j + 1]].balance)

\* A slip in lines 109-110: from and to exchanged.
PushSettlementReversed(st, settlementAmount) ==
    IF GreaterThanEpsilon(settlementAmount)
    THEN Append(st.settlements,
                [from |-> st.balances[st.creditors[st.i + 1]].userId,
                 to |-> st.balances[st.debtors[st.j + 1]].userId,
                 amount |-> Round2(settlementAmount),
                 currency |-> st.currency])
    ELSE st.settlements

\* Lines 107-114: the settlements after the conditional push.
PushSettlement(st, settlementAmount) ==
    IF GreaterThanEpsilon(settlementAmount)
    THEN Append(st.settlements,
                [from |-> st.balances[st.debtors[st.j + 1]].userId,
                 to |-> st.balances[st.creditors[st.i + 1]].userId,
                 amount |-> Round2(settlementAmount),
                 currency |-> st.currency])
    ELSE st.settlements

\* Lines 116-118: the balance objects after the two updates.
UpdateBalances(st, settlementAmount) ==
    LET c == st.creditors[st.i + 1]
        d == st.debtors[st.j + 1]
        b1 == [st.balances EXCEPT ![c].balance = @ - settlementAmount]
    IN  [b1 EXCEPT ![d].balance = @ + settlementAmount]

\* A slip in line 121: the test reads the credit as it was before the
\* update of line 117.
NextIStale(st, bs) ==
    IF AbsBelowEpsilon(st.balances[st.creditors[st.i + 1]].balance) THEN st.i + 1 ELSE st.i

\* Line 121
NextI(st, bs) ==
    IF AbsBelowEpsilon(bs[st.creditors[st.i + 1]].balance) THEN st.i + 1 ELSE st.i

\* Line 122
NextJ(st, bs) ==
    IF AbsBelowEpsilon(bs[st.debtors[st.j + 1]].balance) THEN st.j + 1 ELSE st.j

\* Lines 101-122: one iteration of the while loop.
MatchBody(st) ==
    LET settlementAmount == SettlementAmount(st)
        bs == UpdateBalances(st, settlementAmount)
    IN  [st EXCEPT !.settlements = PushSettlement(st, settlementAmount),
                   !.balances = bs,
                   !.i = NextI(st, bs),
                   !.j = NextJ(st, bs)]

RECURSIVE MatchLoop(_)
\* Lines 100-123: the loop run to its end.
MatchLoop(st) == IF MatchCond(st) THEN MatchLoop(MatchBody(st)) ELSE st

simplifyCurrencyDebts(ds, cur) == MatchLoop(MatchStart(ds, cur)).settlements

\* ------------------------------------------------------------------------
\* simplifyDebts(debts)

\* A slip in the call of line 72: every debt is passed, not the currency's.
EntryCallAllDebts(ds, entry) == MatchStart(ds, entry.key)

\* Lines 71-72: simplifyCurrencyDebts(currencyDebts, currency) is entered for
\* the entry [currency, currencyDebts]; ds is the argument of simplifyDebts.
EntryCall(ds, entry) == MatchStart(entry.items, entry.key)

RECURSIVE simplifyEntries(_, _, _)
\* Lines 71-74: the for loop over the entries, allSettlements accumulating.
simplifyEntries(ds, entries, allSettlements) ==
    IF entries = <<>> THEN allSettlements
    ELSE simplifyEntries(ds, Tail(entries),
             allSettlements \o MatchLoop(EntryCall(ds, Head(entries))).settlements)

simplifyDebts(ds) ==
    IF Len(ds) = 0 THEN <<>>
    ELSE simplifyEntries(ds, ObjectEntries(groupBy(ds)), <<>>)

\* ------------------------------------------------------------------------
\* optimizeSettlementOrder(settlements)

\* A slip in lines 171 and 174: a.amount - b.amount, the smallest first.
compareSettlementsAscending(a, b) ==
    IF a.currency = b.currency THEN a.amount - b.amount
    ELSE LET lc == localeCompare(a.currency, b.currency)
         IN  IF lc # 0 THEN lc ELSE a.amount - b.amount

\* Lines 168-175: the comparator; a negative result puts a first.
compareSettlements(a, b) ==
    IF a.currency = b.currency THEN b.amount - a.amount
    ELSE LET lc == localeCompare(a.currency, b.currency)
         IN  IF lc # 0 THEN lc ELSE b.amount - a.amount

RECURSIVE InsertSorted(_, _)
\* e placed behind every element of sorted that the comparator does not put
\* after it: Array.prototype.sort is stable.
InsertSorted(sorted, e) ==
    IF sorted = <<>> THEN <<e>>
    ELSE IF compareSettlements(Head(sorted), e) > 0 THEN <<e>> \o sorted
    ELSE <<Head(sorted)>> \o InsertSorted(Tail(sorted), e)

RECURSIVE SortFrom(_, _, _)
\* [...settlements].sort(compare): the elements k.. inserted in turn.
SortFrom(ss, k, sorted) ==
    IF k > Len(ss) THEN sorted
    ELSE SortFrom(ss, k + 1, InsertSorted(sorted, ss[k]))

optimizeSettlementOrder(ss) == SortFrom(ss, 1, <<>>)

\* ------------------------------------------------------------------------
\* calculateUserExposure(userId, debts).  totalOwed and totalOwing are
\* objects keyed by currency: functions whose domain is the set of keys set.

\* obj[key] || 0
GetOrZero(obj, key) == IF key \in DOMAIN obj THEN obj[key] ELSE 0

\* obj[key] = value
SetKey(obj, key, value) ==
    [k \in DOMAIN obj \cup {key} |-> IF k = key THEN value ELSE obj[k]]

\* Lines 192-198: the callback of the forEach.
ExposureStep(user, exposure, debt) ==
    IF debt.to = user
    THEN [exposure EXCEPT !.totalOwed =
             SetKey(@, debt.currency, GetOrZero(@, debt.currency) + debt.amount)]
    ELSE IF debt.from = user
    THEN [exposure EXCEPT !.totalOwing =
             SetKey(@, debt.currency, GetOrZero(@, debt.currency) + debt.amount)]
    ELSE exposure

RECURSIVE ExposureFrom(_, _, _, _)
ExposureFrom(user, ds, k, exposure) ==
    IF k > Len(ds) THEN exposure
    ELSE ExposureFrom(user, ds, k + 1, ExposureStep(user, exposure, ds[k]))

EmptyObject == [k \in {} |-> 0]

calculateUserExposure(user, ds) ==
    ExposureFrom(user, ds, 1, [totalOwed |-> EmptyObject, totalOwing |-> EmptyObject])

\* ------------------------------------------------------------------------
\* validateDebtMatrix(debts).  An issue is the template string of line 220
\* or of line 230, kept as its template and the values interpolated.

\* `Invalid debt amount: ${debt.amount} between ${debt.from} and ${debt.to}`
InvalidAmountIssue(debt) ==
    [text |-> "Invalid debt amount", amount |-> debt.amount,
     from |-> debt.from, to |-> debt.to, currency |-> ""]

\* `Currency ${currency} total should be zero, but is ${total}`
CurrencyTotalIssue(cur, total) ==
    [text |-> "Currency total should be zero", amount |-> total,
     from |-> "", to |-> "", currency |-> cur]

\* A slip in line 219: debt.amount < 0, an amount of zero accepted.
ValidateStepStrict(acc, debt) ==
    LET issues1 == IF debt.amount < 0
                   THEN Append(acc.issues, InvalidAmountIssue(debt))
                   ELSE acc.issues
        current == MapGetOrZero(acc.currencyTotals, debt.currency)
    IN  [issues |-> issues1,
         currencyTotals |-> MapSet(acc.currencyTotals, debt.currency, current)]

\* Line 224 with the sum it leaves out: the amount is added to the total.
ValidateStepSumming(acc, debt) ==
    LET issues1 == IF debt.amount <= 0
                   THEN Append(acc.issues, InvalidAmountIssue(debt))
                   ELSE acc.issues
        current == MapGetOrZero(acc.currencyTotals, debt.currency)
    IN  [issues |-> issues1,
         currencyTotals |-> MapSet(acc.currencyTotals, debt.currency, current + debt.amount)]

\* Lines 219-224: the callback of the first forEach on (issues, currencyTotals).
ValidateStep(acc, debt) ==
    LET issues1 == IF debt.amount <= 0
                   THEN Append(acc.issues, InvalidAmountIssue(debt))
                   ELSE acc.issues
        current == MapGetOrZero(acc.currencyTotals, debt.currency)
    IN  [issues |-> issues1,
         currencyTotals |-> MapSet(acc.currencyTotals, debt.currency, current)]

RECURSIVE ValidateFrom(_, _, _)
ValidateFrom(ds, k, acc) ==
    IF k > Len(ds) THEN acc
    ELSE ValidateFrom(ds, k + 1, ValidateStep(acc, ds[k]))

RECURSIVE TotalIssuesFrom(_, _, _)
\* Lines 228-232: currencyTotals.forEach
TotalIssuesFrom(totals, k, issues) ==
    IF k > Len(totals) THEN issues
    ELSE TotalIssuesFrom(totals, k + 1,
             IF AbsAboveEpsilon(totals[k].value)
             THEN Append(issues, CurrencyTotalIssue(totals[k].key, totals[k].value))
             ELSE issues)

validateDebtMatrix(ds) ==
    LET acc == ValidateFrom(ds, 1, [issues |-> <<>>, currencyTotals |-> <<>>])
        issues == TotalIssuesFrom(acc.currencyTotals, 1, acc.issues)
    IN  [isValid |-> Len(issues) = 0, issues |-> issues]

\* ------------------------------------------------------------------------
\* Doubles off the grid.  Amounts such as 0.01, 0.1 and 0.2 are not
\* multiples of 1 / Scale, and the sums and differences the code forms of
\* them are rounded to the 53 significant bits of a double.  In this part
\* of the model a double is kept as it is: its sign and its magnitude, a
\* whole number of 2^-Fraction.  The doubles that are
\* whole multiples of 2^-59 are such values (0.01 and every double from
\* 2^-6 on among them), and so is every sum, difference, product with 100
\* and rounding of them; the functions below are the ones above, computed
\* on these values with the rounding of the double operations.

\* The significant bits of a double.
Precision == 53

\* A magnitude counts units of 2^-Fraction.
Fraction == 59

\* Bits a quotient is computed with beyond 2^-Fraction.
Guard == 8

\* A natural number is written in digits of LimbBits bits each, the least
\* significant first, none for 0 and no leading zero.
LimbBits == 15

\* 2^LimbBits
Base == 32768

RECURSIVE Limbs(_)
\* The natural number n in digits.
Limbs(n) == IF n = 0 THEN <<>> ELSE <<n % Base>> \o Limbs(n \div Base)

RECURSIVE Value(_)
\* The number the digits a stand for.
Value(a) == IF a = <<>> THEN 0 ELSE Head(a) + Base * Value(Tail(a))

RECURSIVE Zeros(_)
Zeros(k) == IF k = 0 THEN <<>> ELSE <<0>> \o Zeros(k - 1)

RECURSIVE Trim(_)
\* a without leading zeros.
Trim(a) ==
    IF a # <<>> /\ a[Len(a)] = 0 THEN Trim(SubSeq(a, 1, Len(a) - 1)) ELSE a

LimbAt(a, k) == IF k <= Len(a) THEN a[k] ELSE 0

RECURSIVE NatSumFrom(_, _, _, _)
\* The digits k.. of a + b, carry coming in.
NatSumFrom(a, b, k, carry) ==
    IF k > Len(a) /\ k > Len(b) THEN Limbs(carry)
    ELSE LET s == LimbAt(a, k) + LimbAt(b, k) + carry
         IN  <<s % Base>> \o NatSumFrom(a, b, k + 1, s \div Base)

\* a + b
NatSum(a, b) == NatSumFrom(a, b, 1, 0)

RECURSIVE NatDifferenceFrom(_, _, _, _)
\* The digits k.. of a - b, borrow coming in; a >= b.
NatDifferenceFrom(a, b, k, borrow) ==
    IF k > Len(a) THEN <<>>
    ELSE LET d == LimbAt(a, k) - LimbAt(b, k) - borrow
         IN  <<d % Base>> \o NatDifferenceFrom(a, b, k + 1, IF d < 0 THEN 1 ELSE 0)

\* a - b for a >= b
NatDifference(a, b) == Trim(NatDifferenceFrom(a, b, 1, 0))

RECURSIVE NatLessFrom(_, _, _)
\* a < b, both of the same length, decided by the digits k..1.
NatLessFrom(a, b, k) ==
    IF k = 0 THEN FALSE
    ELSE IF a[k] # b[k] THEN a[k] < b[k]
    ELSE NatLessFrom(a, b, k - 1)

\* a < b
NatLess(a, b) ==
    IF Len(a) # Len(b) THEN Len(a) < Len(b) ELSE NatLessFrom(a, b, Len(a))

RECURSIVE NatTimesFrom(_, _, _, _)
\* The digits k.. of a * n, carry coming in.
NatTimesFrom(a, n, k, carry) ==
    IF k > Len(a) THEN Limbs(carry)
    ELSE LET t == a[k] * n + carry
         IN  <<t % Base>> \o NatTimesFrom(a, n, k + 1, t \div Base)

\* a * n for an integer n, 0 < n < Base
NatTimes(a, n) == NatTimesFrom(a, n, 1, 0)

RECURSIVE NatProduct(_, _)
\* a * b
NatProduct(a, b) ==
    IF a = <<>> \/ b = <<>> THEN <<>>
    ELSE LET rest == NatProduct(a, Tail(b))
         IN  NatSum(IF Head(b) = 0 THEN <<>> ELSE NatTimes(a, Head(b)),
                    IF rest = <<>> THEN <<>> ELSE <<0>> \o rest)

RECURSIVE NatDivMod(_, _)
\* Quotient (leading zeros left in) and remainder of a by the integer d,
\* 0 < d < Base: a is Base times Tail(a) plus its lowest digit.
NatDivMod(a, d) ==
    IF a = <<>> THEN [q |-> <<>>, r |-> 0]
    ELSE LET high == NatDivMod(Tail(a), d)
             t == Base * high.r + Head(a)
         IN  [q |-> <<t \div d>> \o high.q, r |-> t % d]

\* a * 2^k
Shift(a, k) ==
    IF a = <<>> THEN <<>>
    ELSE Zeros(k \div LimbBits) \o NatTimes(a, Pow2(k % LimbBits))

\* floor(a / 2^k)
HighBits(a, k) ==
    LET w == k \div LimbBits IN
    IF Len(a) <= w THEN <<>>
    ELSE Trim(NatDivMod(SubSeq(a, w + 1, Len(a)), Pow2(k % LimbBits)).q)

\* a mod 2^k
LowBits(a, k) ==
    LET w == k \div LimbBits IN
    IF Len(a) <= w THEN a
    ELSE Trim(SubSeq(a, 1, w) \o <<a[w + 1] % Pow2(k % LimbBits)>>)

RECURSIVE BitLength(_)
\* The number of binary digits of the integer n >= 0.
BitLength(n) == IF n = 0 THEN 0 ELSE 1 + BitLength(n \div 2)

NatBitLength(a) ==
    IF a = <<>> THEN 0 ELSE LimbBits * (Len(a) - 1) + BitLength(a[Len(a)])

\* Round to nearest, ties to even: the natural number a, plus a fraction
\* of a unit when more is TRUE, brought to Precision significant bits.
RoundNearestEven(a, more) ==
    IF NatBitLength(a) <= Precision THEN a
    ELSE LET drop == NatBitLength(a) - Precision
             kept == HighBits(a, drop)
             low == LowBits(a, drop)
             half == Shift(<<1>>, drop - 1)
             above == NatLess(half, low) \/ (low = half /\ more)
             tie == low = half /\ ~more
             up == above \/ (tie /\ kept[1] % 2 = 1)
         IN  Shift(IF up THEN NatSum(kept, <<1>>) ELSE kept, drop)

\* 0
DoubleZero == [neg |-> FALSE, mag |-> <<>>]

\* The value of sign neg and magnitude mag; zero carries no sign here (no
\* comparison of the code tells 0 from -0).
Double(neg, mag) == IF mag = <<>> THEN DoubleZero ELSE [neg |-> neg, mag |-> mag]

\* -x
Negate(x) == Double(~x.neg, x.mag)

\* Math.abs(x)
DoubleAbs(x) == Double(FALSE, x.mag)

\* x + y as a real number, nothing rounded.
ExactSum(x, y) ==
    IF x.neg = y.neg THEN Double(x.neg, NatSum(x.mag, y.mag))
    ELSE IF NatLess(x.mag, y.mag) THEN Double(y.neg, NatDifference(y.mag, x.mag))
    ELSE Double(x.neg, NatDifference(x.mag, y.mag))

\* The double nearest to the real number x.
Rounded(x) == Double(x.neg, RoundNearestEven(x.mag, FALSE))

\* x + y
DoubleSum(x, y) == Rounded(ExactSum(x, y))

\* x - y
DoubleDifference(x, y) == Rounded(ExactSum(x, Negate(y)))

\* x * n for an integer n, 0 < n < Base
DoubleTimes(x, n) == Rounded(Double(x.neg, NatTimes(x.mag, n)))

\* x < y
DoubleLess(x, y) ==
    IF x.neg # y.neg THEN x.neg
    ELSE IF x.neg THEN NatLess(y.mag, x.mag)
    ELSE NatLess(x.mag, y.mag)

\* Math.min(x, y)
DoubleMin(x, y) == IF DoubleLess(x, y) THEN x ELSE y

\* The whole part of the magnitude a, and whether a fraction is left.
Whole(a) == Value(HighBits(a, Fraction))

HasFraction(a) == LowBits(a, Fraction) # <<>>

\* Math.round(x) = floor(x + 0.5), an integer.
MathRound(x) ==
    LET y == ExactSum(x, Double(FALSE, Shift(<<1>>, Fraction - 1)))
    IN  IF y.neg
        THEN 0 - (Whole(y.mag) + (IF HasFraction(y.mag) THEN 1 ELSE 0))
        ELSE Whole(y.mag)

\* k / d for integers k and d, 0 < d < Base: the double nearest to the quotient, which
\* is what the literal 0.01 denotes and what Math.round(...) / 100 gives.
\* The quotient is 0 or at least 2^-7, so that its double is a multiple of
\* 2^-Fraction.
DoubleRatio(k, d) ==
    LET a == Shift(Limbs(Abs(k)), Fraction + Guard)
        qr == NatDivMod(a, d)
        r == RoundNearestEven(Trim(qr.q), qr.r # 0)
    IN  Double(k < 0, HighBits(r, Guard))

\* The amount k hundredths of a Settlement, as the double it is.
Hundredths(k) == DoubleRatio(k, RoundFactor)

\* The literal 0.01 of lines 92, 93, 107, 121 and 122.
Epsilon == DoubleRatio(1, EpsilonInverse)

\* A slip in lines 92 and 107: x >= 0.01
AtLeastEpsilonDouble(x) == ~DoubleLess(x, Epsilon)

\* x > 0.01
GreaterThanEpsilonDouble(x) == DoubleLess(Epsilon, x)

\* x < -0.01
LessThanMinusEpsilonDouble(x) == DoubleLess(x, Negate(Epsilon))

\* Math.abs(x) < 0.01
AbsBelowEpsilonDouble(x) == DoubleLess(DoubleAbs(x), Epsilon)

\* Math.round(x * 100) / 100, the result counted in hundredths.
Round2Double(x) == MathRound(DoubleTimes(x, RoundFactor))

\* balanceMap.get(key) || 0
MapGetOrDoubleZero(m, key) ==
    LET k == MapIndex(m, key, 1) IN IF k = 0 THEN DoubleZero ELSE m[k].value

RECURSIVE balanceMapFromDoubleStale(_, _, _)
\* A slip in lines 142-147: both balances are read before either is written.
balanceMapFromDoubleStale(ds, k, balanceMap) ==
    IF k > Len(ds) THEN balanceMap
    ELSE LET debt == ds[k]
             currentDebtorBalance == MapGetOrDoubleZero(balanceMap, debt.from)
             currentCreditorBalance == MapGetOrDoubleZero(balanceMap, debt.to)
             m1 == MapSet(balanceMap, debt.from,
                          DoubleDifference(currentDebtorBalance, debt.amount))
             m2 == MapSet(m1, debt.to, DoubleSum(currentCreditorBalance, debt.amount))
         IN  balanceMapFromDoubleStale(ds, k + 1, m2)

RECURSIVE balanceMapFromDouble(_, _, _)
\* Lines 140-148: the forEach over debts[k..] on balanceMap.
balanceMapFromDouble(ds, k, balanceMap) ==
    IF k > Len(ds) THEN balanceMap
    ELSE LET debt == ds[k]
             currentDebtorBalance == MapGetOrDoubleZero(balanceMap, debt.from)
             m1 == MapSet(balanceMap, debt.from,
                          DoubleDifference(currentDebtorBalance, debt.amount))
             currentCreditorBalance == MapGetOrDoubleZero(m1, debt.to)
             m2 == MapSet(m1, debt.to, DoubleSum(currentCreditorBalance, debt.amount))
         IN  balanceMapFromDouble(ds, k + 1, m2)

\* calculateNetBalances(debts, currency), lines 136-156.
calculateNetBalancesDouble(ds, cur) ==
    LET balanceMap == balanceMapFromDouble(ds, 1, <<>>) IN
    [k \in 1..Len(balanceMap) |->
        [userId |-> balanceMap[k].key, balance |-> balanceMap[k].value, currency |-> cur]]

\* Line 92: b.balance > 0.01
IsCreditorDouble(b) == GreaterThanEpsilonDouble(b.balance)

\* Line 93: b.balance < -0.01
IsDebtorDouble(b) == LessThanMinusEpsilonDouble(b.balance)

RECURSIVE CreditorsFromDouble(_, _)
\* balances.filter(b => b.balance > 0.01) over bs[k..], as indices into bs.
CreditorsFromDouble(bs, k) ==
    IF k > Len(bs) THEN <<>>
    ELSE IF IsCreditorDouble(bs[k]) THEN <<k>> \o CreditorsFromDouble(bs, k + 1)
    ELSE CreditorsFromDouble(bs, k + 1)

RECURSIVE DebtorsFromDouble(_, _)
\* balances.filter(b => b.balance < -0.01) over bs[k..].
DebtorsFromDouble(bs, k) ==
    IF k > Len(bs) THEN <<>>
    ELSE IF IsDebtorDouble(bs[k]) THEN <<k>> \o DebtorsFromDouble(bs, k + 1)
    ELSE DebtorsFromDouble(bs, k + 1)

\* Lines 89-98: the state on entry to the while loop.
MatchStartDouble(ds, cur) ==
    LET bs == calculateNetBalancesDouble(ds, cur) IN
    [balances |-> bs,
     creditors |-> CreditorsFromDouble(bs, 1),
     debtors |-> DebtorsFromDouble(bs, 1),
     i |-> 0, j |-> 0,
     settlements |-> <<>>,
     currency |-> cur]

\* Line 105
SettlementAmountDouble(st) ==
    DoubleMin(st.balances[st.creditors[st.i + 1]].balance,
              Negate(st.balances[st.debtors[st.j + 1]].balance))

\* Lines 107-114: the settlements after the conditional push.
PushSettlementDouble(st, settlementAmount) ==
    IF GreaterThanEpsilonDouble(settlementAmount)
    THEN Append(st.settlements,
                [from |-> st.balances[st.debtors[st.j + 1]].userId,
                 to |-> st.balances[st.creditors[st.i + 1]].userId,
                 amount |-> Round2Double(settlementAmount),
                 currency |-> st.currency])
    ELSE st.settlements

\* Lines 116-118: the balance objects after the two updates.
UpdateBalancesDouble(st, settlementAmount) ==
    LET c == st.creditors[st.i + 1]
        d == st.debtors[st.j + 1]
        b1 == [st.balances EXCEPT ![c].balance = DoubleDifference(@, settlementAmount)]
    IN  [b1 EXCEPT ![d].balance = DoubleSum(@, settlementAmount)]

\* Line 121
NextIDouble(st, bs) ==
    IF AbsBelowEpsilonDouble(bs[st.creditors[st.i + 1]].balance) THEN st.i + 1 ELSE st.i

\* Line 122
NextJDouble(st, bs) ==
    IF AbsBelowEpsilonDouble(bs[st.debtors[st.j + 1]].balance) THEN st.j + 1 ELSE st.j

\* Lines 101-122: one iteration of the while loop.
MatchBodyDouble(st) ==
    LET settlementAmount == SettlementAmountDouble(st)
        bs == UpdateBalancesDouble(st, settlementAmount)
    IN  [st EXCEPT !.settlements = PushSettlementDouble(st, settlementAmount),
                   !.balances = bs,
                   !.i = NextIDouble(st, bs),
                   !.j = NextJDouble(st, bs)]

RECURSIVE MatchLoopDouble(_)
\* Lines 100-123: the loop run to its end.
MatchLoopDouble(st) ==
    IF MatchCond(st) THEN MatchLoopDouble(MatchBodyDouble(st)) ELSE st

simplifyCurrencyDebtsDouble(ds, cur) ==
    MatchLoopDouble(MatchStartDouble(ds, cur)).settlements

\* Lines 71-72: simplifyCurrencyDebts(currencyDebts, currency) is entered for
\* the entry [currency, currencyDebts].
EntryCallDouble(ds, entry) == MatchStartDouble(entry.items, entry.key)

RECURSIVE simplifyEntriesDouble(_, _, _)
\* Lines 71-74: the for loop over the entries, allSettlements accumulating.
simplifyEntriesDouble(ds, entries, allSettlements) ==
    IF entries = <<>> THEN allSettlements
    ELSE simplifyEntriesDouble(ds, Tail(entries),
             allSettlements
                 \o MatchLoopDouble(EntryCallDouble(ds, Head(entries))).settlements)

\* simplifyDebts(debts), lines 63-77.
simplifyDebtsDouble(ds) ==
    IF Len(ds) = 0 THEN <<>>
    ELSE simplifyEntriesDouble(ds, ObjectEntries(groupBy(ds)), <<>>)

\* ------------------------------------------------------------------------
\* Inputs.  Amounts are in 1/Scale: 8 is below 0.01, 12 and 24 are above it.

Users == {"A", "B", "C", "D"}

Debt(f, t, a, c) == [from |-> f, to |-> t, amount |-> a, currency |-> c]

Settlement(f, t, a, c) == [from |-> f, to |-> t, amount |-> a, currency |-> c]

\* Debts of A and B to C and D, in dollars and (A only) in euros.
MatchDebts ==
    {Debt(f, t, a, "USD") : f \in {"A", "B"}, t \in {"C", "D"}, a \in {8, 12, 24}}
    \cup {Debt("A", t, 12, "EUR") : t \in {"C", "D"}}

\* A debt back, debts to oneself, debts of amount zero and below zero.
OddDebts ==
    {Debt("C", "A", 12, "USD"), Debt("A", "A", 12, "USD"), Debt("B", "B", 8, "EUR"),
     Debt("A", "C", 0, "USD"), Debt("D", "A", 0 - 12, "USD")}

MainDebts == MatchDebts \cup OddDebts

\* The documented example (lines 53-57): A owes B 10, B owes C 15, C owes A 5.
ScenarioDebts ==
    <<Debt("A", "B", 10 * Scale, "USD"), Debt("B", "C", 15 * Scale, "USD"),
      Debt("C", "A", 5 * Scale, "USD")>>

ScenarioDebtSet ==
    {Debt(p[1], p[2], a * Scale, "USD") :
        p \in {<<"A", "B">>, <<"B", "C">>, <<"C", "A">>}, a \in {5, 10, 15}}

\* Debts in currencies named by letters and by digits (the numeric codes of
\* the dollar and the euro).
CurrencyDebts ==
    {Debt("A", "C", 12, c) : c \in {"EUR", "USD", "840", "978"}}
    \cup {Debt("B", "C", 24, c) : c \in {"USD", "840"}}

\* Debts in two currencies, one of them below 0.01, one of them a debt back.
CallsDebts ==
    {Debt("A", "C", 12, "USD"), Debt("B", "C", 24, "USD"), Debt("C", "A", 8, "USD"),
     Debt("A", "D", 12, "EUR")}

\* Debts whose amounts are doubles off the grid, given in hundredths: 0.01
\* (the epsilon itself), 0.1, 0.2 and 0.3, whose sums are rounded; 0.25,
\* which is on the grid; a debt back, a debt to oneself, an amount of zero
\* and one below zero; two currencies.
DecimalDebts ==
    {Debt(p[1], p[2], Hundredths(k), "USD") :
        p \in {<<"A", "B">>, <<"A", "C">>}, k \in {1, 10, 20}}
    \cup {Debt("B", "C", Hundredths(30), "USD"), Debt("C", "A", Hundredths(10), "USD"),
          Debt("A", "A", Hundredths(10), "USD"), Debt("C", "B", Hundredths(0), "USD"),
          Debt("B", "A", Hundredths(0 - 20), "USD"),
          Debt("A", "B", Hundredths(25), "EUR"), Debt("C", "B", Hundredths(1), "EUR")}

\* Settlements of 5.00 and 20.00 in two currencies, between two pairs.
OrderSettlements ==
    {Settlement(p[1], p[2], a, c) :
        p \in {<<"X", "Y">>, <<"A", "B">>}, a \in {500, 2000}, c \in {"EUR", "USD"}}

OrderScenario ==
    <<Settlement("X", "Y", 500, "EUR"), Settlement("X", "Y", 2000, "USD"),
      Settlement("A", "B", 2000, "EUR")>>

\* ------------------------------------------------------------------------
\* The state machine: one call of one exported function on the inputs.

VARIABLES
    debts,          \* the argument debts
    settlementsIn,  \* the argument of optimizeSettlementOrder
    userId,         \* the argument userId of calculateUserExposure
    op,             \* the function called, "none" before the call
    pc,             \* position of the call: "idle", "for", "while", "done"
    entries,        \* simplifyDebts: the entries the for loop has yet to visit
    allSettlements, \* simplifyDebts: allSettlements
    currency,       \* simplifyCurrencyDebts: currency
    balances,       \* simplifyCurrencyDebts: balances (the objects)
    creditors,      \* simplifyCurrencyDebts: creditors (indices into balances)
    debtors,        \* simplifyCurrencyDebts: debtors (indices into balances)
    i,              \* simplifyCurrencyDebts: i
    j,              \* simplifyCurrencyDebts: j
    settlements,    \* simplifyCurrencyDebts: settlements
    iterations,     \* number of iterations of the while loop in this call
    simplified,     \* what simplifyDebts returned
    ordered,        \* what optimizeSettlementOrder returned
    exposure,       \* what calculateUserExposure returned
    report,         \* what validateDebtMatrix returned
    accounts,       \* table accounts: the rows, a row's id being its index
    transactions,   \* table transactions: the rows in insertion order
    calls,          \* accounts service: each client's call in flight
    started,        \* accounts service: number of calls started
    groups,         \* table groups: for each id given, whether its row is there
    members,        \* table group_members: the rows, a row's id being its index
    groupRuns,      \* groups service: each client's call in flight
    groupCall,      \* groups service: the call that returned last
    groupCalls,     \* groups service: number of calls started
    expenses,       \* table expenses: the rows, a row's id being its index
    expenseRuns,    \* expenses service: each client's call in flight
    expenseCall,    \* expenses service: the call that returned last
    expenseCalls    \* expenses service: number of calls started

vars == <<debts, settlementsIn, userId, op, pc, entries, allSettlements, currency,
          balances, creditors, debtors, i, j, settlements, iterations,
          simplified, ordered, exposure, report,
          accounts, transactions, calls, started,
          groups, members, groupRuns, groupCall, groupCalls,
          expenses, expenseRuns, expenseCall, expenseCalls>>

\* The tables and the calls of the services: the debt utilities never touch
\* them.
accountVars == <<accounts, transactions, calls, started>>

groupVars == <<groups, members, groupRuns, groupCall, groupCalls>>

expenseVars == <<expenses, expenseRuns, expenseCall, expenseCalls>>

services == <<accountVars, groupVars, expenseVars>>

inputs == <<debts, settlementsIn>>

matchVars == <<currency, balances, creditors, debtors, i, j, settlements, iterations>>

results == <<simplified, ordered, exposure, report>>

\* The state of the debt utilities: the services never touch it.
debtVars == <<inputs, userId, op, pc, entries, allSettlements, matchVars, results>>

\* The state of the current simplifyCurrencyDebts call as a record.
Match ==
    [balances |-> balances, creditors |-> creditors, debtors |-> debtors,
     i |-> i, j |-> j, settlements |-> settlements, currency |-> currency]

NoReport == [isValid |-> TRUE, issues |-> <<>>]

NoExposure == [totalOwed |-> EmptyObject, totalOwing |-> EmptyObject]

\* Everything but the inputs, before the call.
Idle ==
    /\ op = "none" /\ pc = "idle" /\ userId = ""
    /\ entries = <<>> /\ allSettlements = <<>>
    /\ currency = "" /\ balances = <<>> /\ creditors = <<>> /\ debtors = <<>>
    /\ i = 0 /\ j = 0 /\ settlements = <<>> /\ iterations = 0
    /\ simplified = <<>> /\ ordered = <<>>
    /\ exposure = NoExposure /\ report = NoReport

\* Line 64: if (!debts.length) return []
SimplifyDebtsEmpty ==
    /\ pc = "idle" /\ Len(debts) = 0
    /\ op' = "simplifyDebts" /\ pc' = "done"
    /\ simplified' = <<>>
    /\ UNCHANGED <<services, inputs, userId, entries, allSettlements, matchVars,
                   ordered, exposure, report>>

\* Lines 67-68: the grouping, before the for loop.
SimplifyDebtsGroup ==
    /\ pc = "idle" /\ Len(debts) # 0
    /\ op' = "simplifyDebts" /\ pc' = "for"
    /\ entries' = ObjectEntries(groupBy(debts))
    /\ allSettlements' = <<>>
    /\ UNCHANGED <<services, inputs, userId, matchVars, results>>

\* Line 72 and lines 89-98: simplifyCurrencyDebts is entered for the next entry.
EnterCurrency ==
    /\ pc = "for" /\ entries # <<>>
    /\ LET st == EntryCall(debts, Head(entries)) IN
        /\ currency' = st.currency
        /\ balances' = st.balances
        /\ creditors' = st.creditors
        /\ debtors' = st.debtors
        /\ i' = st.i /\ j' = st.j
        /\ settlements' = st.settlements
    /\ iterations' = 0
    /\ pc' = "while"
    /\ UNCHANGED <<services, inputs, userId, op, entries, allSettlements, results>>

\* Lines 100-123: one iteration of the while loop.
MatchIteration ==
    /\ pc = "while" /\ MatchCond(Match)
    /\ LET st == MatchBody(Match) IN
        /\ balances' = st.balances
        /\ i' = st.i /\ j' = st.j
        /\ settlements' = st.settlements
    /\ iterations' = iterations + 1
    /\ UNCHANGED <<services, inputs, userId, op, pc, entries, allSettlements, currency,
                   creditors, debtors, results>>

\* Lines 125 and 73: the loop is left, the settlements are pushed.
LeaveCurrency ==
    /\ pc = "while" /\ ~MatchCond(Match)
    /\ allSettlements' = allSettlements \o settlements
    /\ entries' = Tail(entries)
    /\ pc' = "for"
    /\ UNCHANGED <<services, inputs, userId, op, matchVars, results>>

\* Line 76: return allSettlements
ReturnSettlements ==
    /\ pc = "for" /\ entries = <<>>
    /\ simplified' = allSettlements
    /\ pc' = "done"
    /\ UNCHANGED <<services, inputs, userId, op, entries, allSettlements, matchVars,
                   ordered, exposure, report>>

\* A slip in line 168: settlements.sort(...) without the copy, which sorts
\* the caller's array in place and returns it.
SortInPlace(ss) ==
    [settlements |-> optimizeSettlementOrder(ss), returned |-> optimizeSettlementOrder(ss)]

\* Line 168: [...settlements].sort(...) sorts a copy; the array passed is
\* as it was, the copy is returned.
SortCopy(ss) ==
    [settlements |-> ss, returned |-> optimizeSettlementOrder(ss)]

CallOptimizeSettlementOrder ==
    /\ pc = "idle"
    /\ op' = "optimizeSettlementOrder" /\ pc' = "done"
    /\ settlementsIn' = SortCopy(settlementsIn).settlements
    /\ ordered' = SortCopy(settlementsIn).returned
    /\ UNCHANGED <<services, debts, userId, entries, allSettlements, matchVars,
                   simplified, exposure, report>>

CallCalculateUserExposure ==
    /\ pc = "idle"
    /\ \E u \in Users :
        /\ userId' = u
        /\ exposure' = calculateUserExposure(u, debts)
    /\ op' = "calculateUserExposure" /\ pc' = "done"
    /\ UNCHANGED <<services, inputs, entries, allSettlements, matchVars,
                   simplified, ordered, report>>

CallValidateDebtMatrix ==
    /\ pc = "idle"
    /\ op' = "validateDebtMatrix" /\ pc' = "done"
    /\ report' = validateDebtMatrix(debts)
    /\ UNCHANGED <<services, inputs, userId, entries, allSettlements, matchVars,
                   simplified, ordered, exposure>>

\* The call has returned and the caller, who keeps what the calls returned,
\* is about to make another: the locals of the call are gone.
CallAgain ==
    /\ pc = "done"
    /\ op' = "none" /\ pc' = "idle" /\ userId' = ""
    /\ entries' = <<>> /\ allSettlements' = <<>>
    /\ currency' = "" /\ balances' = <<>> /\ creditors' = <<>> /\ debtors' = <<>>
    /\ i' = 0 /\ j' = 0 /\ settlements' = <<>> /\ iterations' = 0
    /\ UNCHANGED <<services, inputs, results>>

Next ==
    \/ SimplifyDebtsEmpty
    \/ SimplifyDebtsGroup
    \/ EnterCurrency
    \/ MatchIteration
    \/ LeaveCurrency
    \/ ReturnSettlements
    \/ CallOptimizeSettlementOrder
    \/ CallCalculateUserExposure
    \/ CallValidateDebtMatrix

\* Line 72 and lines 89-98 on doubles off the grid: simplifyCurrencyDebts is
\* entered for the next entry.
EnterCurrencyDouble ==
    /\ pc = "for" /\ entries # <<>>
    /\ LET st == EntryCallDouble(debts, Head(entries)) IN
        /\ currency' = st.currency
        /\ balances' = st.balances
        /\ creditors' = st.creditors
        /\ debtors' = st.debtors
        /\ i' = st.i /\ j' = st.j
        /\ settlements' = st.settlements
    /\ iterations' = 0
    /\ pc' = "while"
    /\ UNCHANGED <<services, inputs, userId, op, entries, allSettlements, results>>

\* Lines 100-123 on doubles off the grid: one iteration of the while loop.
MatchIterationDouble ==
    /\ pc = "while" /\ MatchCond(Match)
    /\ LET st == MatchBodyDouble(Match) IN
        /\ balances' = st.balances
        /\ i' = st.i /\ j' = st.j
        /\ settlements' = st.settlements
    /\ iterations' = iterations + 1
    /\ UNCHANGED <<services, inputs, userId, op, pc, entries, allSettlements, currency,
                   creditors, debtors, results>>

\* simplifyDebts called on debts whose amounts are doubles off the grid.
DecimalNext ==
    \/ SimplifyDebtsEmpty
    \/ SimplifyDebtsGroup
    \/ EnterCurrencyDouble
    \/ MatchIterationDouble
    \/ LeaveCurrency
    \/ ReturnSettlements

\* ------------------------------------------------------------------------
\* The accounts service (src/services/accounts.ts).  The table lives in the
\* hosted database; a call is a sequence of requests to it, one per await,
\* and the requests of calls made by different clients interleave.  Balances
\* are in 1/Scale like the amounts above.

MaxAccounts == 2
MaxCalls == 4

Clients == {1, 2}

AccountUsers == {"u1", "u2"}

\* The amounts updateAccountBalance is called with: below and above 0.01.
BalanceAmounts == {8, 12}

\* The updates updateAccount is called with.
AccountUpdates == {[is_primary |-> TRUE], [is_primary |-> FALSE], [currency |-> "EUR"]}

NoCall ==
    [fn |-> "none", pc |-> "idle", accountId |-> 0, userId |-> "", amount |-> 0,
     read |-> 0, currency |-> ""]

\* No row, no call: the state of the database and the clients at the start.
AccountsIdle ==
    /\ accounts = <<>> /\ transactions = <<>>
    /\ calls = [c \in Clients |-> NoCall]
    /\ started = 0

\* .eq('id', accountId).single(): the row exists.
AccountExists(id) == id \in 1..Len(accounts)

\* A call may start: the client has none in flight.
MayStart(c) == calls[c].pc = "idle" /\ started < MaxCalls

Returned(c) == [calls EXCEPT ![c] = NoCall]

\* Lines 107-114: the defaults of createAccount.
AccountRow(user, cur, primary) ==
    [user_id |-> user,
     balance |-> 0,
     currency |-> IF cur = "" THEN "USD" ELSE cur,
     status |-> "active",
     is_primary |-> primary]

\* createAccount (lines 100-129): one insert.  cur = "" is a call without
\* currency.
CreateAccount(c) ==
    /\ MayStart(c) /\ Len(accounts) < MaxAccounts
    /\ \E user \in AccountUsers, cur \in {"", "EUR"}, primary \in BOOLEAN :
        accounts' = Append(accounts, AccountRow(user, cur, primary))
    /\ started' = started + 1
    /\ UNCHANGED <<debtVars, groupVars, expenseVars, transactions, calls>>

\* createAccount, lines 117-128: the insert fails and the call returns the
\* error.
CreateAccountFails(c) ==
    /\ MayStart(c)
    /\ started' = started + 1
    /\ UNCHANGED <<debtVars, groupVars, expenseVars, accounts, transactions, calls>>

\* updateAccount, lines 238-247: the ownership check.  A missing row or
\* another owner ends the call with an error.
UpdateAccountFetch(c) ==
    /\ MayStart(c)
    /\ \E id \in 1..MaxAccounts, user \in AccountUsers :
        calls' = IF AccountExists(id) /\ accounts[id].user_id = user
                 THEN [calls EXCEPT ![c] = [NoCall EXCEPT !.fn = "updateAccount",
                          !.pc = "update", !.accountId = id, !.userId = user]]
                 ELSE calls
    /\ started' = started + 1
    /\ UNCHANGED <<debtVars, groupVars, expenseVars, accounts, transactions>>

\* The row with the fields of updates replaced.
ApplyUpdates(row, updates) ==
    [f \in DOMAIN row |-> IF f \in DOMAIN updates THEN updates[f] ELSE row[f]]

\* updateAccount, lines 255-260: the update, whatever fields it names.
UpdateAccountWrite(c) ==
    /\ calls[c].fn = "updateAccount" /\ calls[c].pc = "update"
    /\ \E updates \in AccountUpdates :
        accounts' = [accounts EXCEPT ![calls[c].accountId] = ApplyUpdates(@, updates)]
    /\ calls' = Returned(c)
    /\ UNCHANGED <<debtVars, groupVars, expenseVars, transactions, started>>

\* updateAccount, lines 255-266: the update fails and the call returns the
\* error.
UpdateAccountWriteFails(c) ==
    /\ calls[c].fn = "updateAccount" /\ calls[c].pc = "update"
    /\ calls' = Returned(c)
    /\ UNCHANGED <<debtVars, groupVars, expenseVars, accounts, transactions, started>>

\* setPrimaryAccount, lines 406-413: the account is read (id and owner).
SetPrimaryFetch(c) ==
    /\ MayStart(c)
    /\ \E id \in 1..MaxAccounts, user \in AccountUsers :
        calls' = IF AccountExists(id) /\ accounts[id].user_id = user
                 THEN [calls EXCEPT ![c] = [NoCall EXCEPT !.fn = "setPrimaryAccount",
                          !.pc = "clear", !.accountId = id, !.userId = user,
                          !.currency = accounts[id].currency]]
                 ELSE calls
    /\ started' = started + 1
    /\ UNCHANGED <<debtVars, groupVars, expenseVars, accounts, transactions>>

\* setPrimaryAccount, lines 416-420: the flag is removed from the user's
\* accounts of the currency read.
SetPrimaryClear(c) ==
    /\ calls[c].fn = "setPrimaryAccount" /\ calls[c].pc = "clear"
    /\ accounts' = [id \in 1..Len(accounts) |->
                       IF /\ accounts[id].user_id = calls[c].userId
                          /\ accounts[id].currency = calls[c].currency
                       THEN [accounts[id] EXCEPT !.is_primary = FALSE]
                       ELSE accounts[id]]
    /\ calls' = [calls EXCEPT ![c].pc = "set"]
    /\ UNCHANGED <<debtVars, groupVars, expenseVars, transactions, started>>

\* setPrimaryAccount, lines 416-420: the update fails; its result is not
\* looked at and the call goes on.
SetPrimaryClearFails(c) ==
    /\ calls[c].fn = "setPrimaryAccount" /\ calls[c].pc = "clear"
    /\ calls' = [calls EXCEPT ![c].pc = "set"]
    /\ UNCHANGED <<debtVars, groupVars, expenseVars, accounts, transactions, started>>

\* setPrimaryAccount, lines 423-431: the flag is set on the account.
SetPrimarySet(c) ==
    /\ calls[c].fn = "setPrimaryAccount" /\ calls[c].pc = "set"
    /\ accounts' = [accounts EXCEPT ![calls[c].accountId].is_primary = TRUE]
    /\ calls' = Returned(c)
    /\ UNCHANGED <<debtVars, groupVars, expenseVars, transactions, started>>

\* setPrimaryAccount, lines 423-433: the update fails and the call returns
\* the error.
SetPrimarySetFails(c) ==
    /\ calls[c].fn = "setPrimaryAccount" /\ calls[c].pc = "set"
    /\ calls' = Returned(c)
    /\ UNCHANGED <<debtVars, groupVars, expenseVars, accounts, transactions, started>>

\* updateAccountBalance, lines 289-300: the account is read (id and owner)
\* and newBalance computed from the balance read.
UpdateBalanceFetch(c) ==
    /\ MayStart(c)
    /\ \E id \in 1..MaxAccounts, user \in AccountUsers, amount \in BalanceAmounts :
        calls' = IF AccountExists(id) /\ accounts[id].user_id = user
                 THEN [calls EXCEPT ![c] = [NoCall EXCEPT !.fn = "updateAccountBalance",
                          !.pc = "update", !.accountId = id, !.userId = user,
                          !.amount = amount, !.read = accounts[id].balance]]
                 ELSE calls
    /\ started' = started + 1
    /\ UNCHANGED <<debtVars, groupVars, expenseVars, accounts, transactions>>

\* updateAccountBalance, lines 302-311: newBalance is written.
UpdateBalanceWrite(c) ==
    /\ calls[c].fn = "updateAccountBalance" /\ calls[c].pc = "update"
    /\ accounts' = [accounts EXCEPT ![calls[c].accountId].balance =
                       calls[c].read + calls[c].amount]
    /\ calls' = [calls EXCEPT ![c].pc = "insert"]
    /\ UNCHANGED <<debtVars, groupVars, expenseVars, transactions, started>>

\* updateAccountBalance, lines 303-313: the update fails and the call
\* returns the error: no balance written, no transaction, no rollback.
UpdateBalanceWriteFails(c) ==
    /\ calls[c].fn = "updateAccountBalance" /\ calls[c].pc = "update"
    /\ calls' = Returned(c)
    /\ UNCHANGED <<debtVars, groupVars, expenseVars, accounts, transactions, started>>

\* updateAccountBalance, lines 316-330 and 342-348: the transaction row is
\* inserted and the call returns.
UpdateBalanceInsert(c) ==
    /\ calls[c].fn = "updateAccountBalance" /\ calls[c].pc = "insert"
    /\ transactions' = Append(transactions,
           [account_id |-> calls[c].accountId, user_id |-> calls[c].userId,
            amount |-> calls[c].amount,
            balance_after |-> calls[c].read + calls[c].amount])
    /\ calls' = Returned(c)
    /\ UNCHANGED <<debtVars, groupVars, expenseVars, accounts, started>>

\* updateAccountBalance, line 332: the insert fails.
UpdateBalanceInsertFails(c) ==
    /\ calls[c].fn = "updateAccountBalance" /\ calls[c].pc = "insert"
    /\ calls' = [calls EXCEPT ![c].pc = "rollback"]
    /\ UNCHANGED <<debtVars, groupVars, expenseVars, accounts, transactions, started>>

\* updateAccountBalance, lines 333-339: the balance read at the start is
\* written back and the call returns the error.
UpdateBalanceRollback(c) ==
    /\ calls[c].fn = "updateAccountBalance" /\ calls[c].pc = "rollback"
    /\ accounts' = [accounts EXCEPT ![calls[c].accountId].balance = calls[c].read]
    /\ calls' = Returned(c)
    /\ UNCHANGED <<debtVars, groupVars, expenseVars, transactions, started>>

\* updateAccountBalance, lines 333-338: the update of the rollback fails;
\* its result is not looked at and the call returns the error of the insert.
UpdateBalanceRollbackFails(c) ==
    /\ calls[c].fn = "updateAccountBalance" /\ calls[c].pc = "rollback"
    /\ calls' = Returned(c)
    /\ UNCHANGED <<debtVars, groupVars, expenseVars, accounts, transactions, started>>

\* closeAccount, lines 362-376: the account is read; a missing row, another
\* owner or a balance beyond 0.01 ends the call with an error.
CloseAccountFetch(c) ==
    /\ MayStart(c)
    /\ \E id \in 1..MaxAccounts, user \in AccountUsers :
        calls' = IF /\ AccountExists(id)
                    /\ accounts[id].user_id = user
                    /\ ~AbsAboveEpsilon(accounts[id].balance)
                 THEN [calls EXCEPT ![c] = [NoCall EXCEPT !.fn = "closeAccount",
                          !.pc = "close", !.accountId = id, !.userId = user]]
                 ELSE calls
    /\ started' = started + 1
    /\ UNCHANGED <<debtVars, groupVars, expenseVars, accounts, transactions>>

\* closeAccount, lines 379-385: the status is set to closed.
CloseAccountWrite(c) ==
    /\ calls[c].fn = "closeAccount" /\ calls[c].pc = "close"
    /\ accounts' = [accounts EXCEPT ![calls[c].accountId].status = "closed"]
    /\ calls' = Returned(c)
    /\ UNCHANGED <<debtVars, groupVars, expenseVars, transactions, started>>

\* closeAccount, lines 379-391: the update fails and the call returns the
\* error.
CloseAccountWriteFails(c) ==
    /\ calls[c].fn = "closeAccount" /\ calls[c].pc = "close"
    /\ calls' = Returned(c)
    /\ UNCHANGED <<debtVars, groupVars, expenseVars, accounts, transactions, started>>

AccountsNext ==
    \/ \E c \in Clients : CreateAccount(c)
    \/ \E c \in Clients : CreateAccountFails(c)
    \/ \E c \in Clients : UpdateAccountFetch(c)
    \/ \E c \in Clients : UpdateAccountWrite(c)
    \/ \E c \in Clients : UpdateAccountWriteFails(c)
    \/ \E c \in Clients : SetPrimaryFetch(c)
    \/ \E c \in Clients : SetPrimaryClear(c)
    \/ \E c \in Clients : SetPrimaryClearFails(c)
    \/ \E c \in Clients : SetPrimarySet(c)
    \/ \E c \in Clients : SetPrimarySetFails(c)
    \/ \E c \in Clients : UpdateBalanceFetch(c)
    \/ \E c \in Clients : UpdateBalanceWrite(c)
    \/ \E c \in Clients : UpdateBalanceWriteFails(c)
    \/ \E c \in Clients : UpdateBalanceInsert(c)
    \/ \E c \in Clients : UpdateBalanceInsertFails(c)
    \/ \E c \in Clients : UpdateBalanceRollback(c)
    \/ \E c \in Clients : UpdateBalanceRollbackFails(c)
    \/ \E c \in Clients : CloseAccountFetch(c)
    \/ \E c \in Clients : CloseAccountWrite(c)
    \/ \E c \in Clients : CloseAccountWriteFails(c)

\* ------------------------------------------------------------------------
\* The expenses service (src/services/expenses.ts).  A call is a sequence of
\* requests to the database, one per await; the requests of calls made by
\* different clients interleave, and a request may fail.  Amounts are in
\* 1/Scale, the shares of a split in hundredths.  A row's id is its index in
\* the table; a deleted row leaves its index behind.

MaxExpenses == 2
MaxExpenseCalls == 3

ExpenseClients == {1, 2}

ExpenseUsers == {"u1", "u2"}

\* 1.00, 3.00 and -0.125: addExpense refuses an amount of 0 only (line 31).
ExpenseAmounts == {Scale, 3 * Scale, 0 - Scale \div 8}

ParticipantLists == {<<"u1">>, <<"u2">>, <<"u1", "u2">>, <<"u2", "u1">>}

SplitMethods == {"equal", "percentage"}

\* The group_id addExpense is called with: none (null) or the first group.
ExpenseGroups == {0, 1}

\* The updates updateExpense is called with: an amount, a participants
\* list, a split method, alone or together.
ExpenseUpdates ==
    {[amount |-> a] : a \in ExpenseAmounts}
    \cup {[participants |-> ps] : ps \in ParticipantLists}
    \cup {[split_method |-> m] : m \in SplitMethods}
    \cup {[amount |-> a, participants |-> ps] : a \in ExpenseAmounts, ps \in ParticipantLists}

\* The index of a deleted row of expenses: no request matches it.
NoExpense ==
    [group_id |-> 0, user_id |-> "", amount |-> 0, participants |-> <<>>,
     split_method |-> "", splits |-> <<>>]

NoExpenseCall == [fn |-> "none", id |-> 0, fields |-> {}, result |-> "none"]

NoExpenseRun == [fn |-> "none", pc |-> "idle", id |-> 0, updates |-> <<>>]

ExpensesIdle ==
    /\ expenses = <<>>
    /\ expenseRuns = [c \in ExpenseClients |-> NoExpenseRun]
    /\ expenseCall = NoExpenseCall
    /\ expenseCalls = 0

\* .from('expenses') ... .eq('id', id): the row is in the table.
ExpenseExists(id) == id \in 1..Len(expenses) /\ expenses[id] # NoExpense

\* participants.includes(userId)
Includes(participants, user) == \E k \in 1..Len(participants) : participants[k] = user

\* The binary exponent of the double m: floor(log2(m)).
Exponent(m) == CHOOSE x \in 0..29 : Pow2(x) <= m /\ m < Pow2(x + 1)

\* The binary exponent of the double m / 25, counted from -5:
\* floor(log2(m / 25)) + 5.
ExponentOver25(m) ==
    CHOOSE x \in 0..25 : 25 * Pow2(x) <= 32 * m /\ 32 * m < 25 * Pow2(x + 1)

\* 2^k mod 25: the powers of 2 have period 20 modulo 25.
Pow2Mod25(k) == Pow2(k % 20) % 25

\* The double m / 25 keeps 53 bits of the quotient, the integer part of
\* m * 2^s / 25 for s = 57 - ExponentOver25(m): what that division leaves.
MantissaRemainder(m) == ((m % 25) * Pow2Mod25(57 - ExponentOver25(m))) % 25

\* (amount / length) * 100 for a share of exactly m / 200, m odd and above
\* zero: the double product is below m / 2, and Math.round gives
\* (m - 1) / 2.  The quotient is the double of m / 25 divided by 8 and the
\* product the double of 25 times it divided by 2.  The product falls below
\* m when the quotient was rounded down by more than half of the last bit m
\* has room for: that bit counts 16 of the quotient's when the exponents of
\* m and m / 25 differ by 4, and 32, more than any remainder, when they
\* differ by 5.
TieFallsShort(m) ==
    /\ Exponent(m) - (ExponentOver25(m) - 5) = 4
    /\ MantissaRemainder(m) \in 9..12

\* The same product is above m / 2: the quotient was rounded up by more than
\* half of that bit.  Doubles are symmetric in the sign, so for the share
\* -m / 200 the product is then below -m / 2.
TieOvershoots(m) ==
    /\ Exponent(m) - (ExponentOver25(m) - 5) = 4
    /\ MantissaRemainder(m) \in 13..16

\* Math.round((amount / participants.length) * 100) / 100, in hundredths,
\* for an amount of either sign.  Math.round(y) is floor(y + 0.5).  Off a
\* tie the double product lies on the same side of the tie as the exact one
\* and Math.round gives the nearest integer.  On a tie (the exact product is
\* m / 2 or -m / 2, m odd) it gives the integer above (so -12 for -12.5)
\* unless the double product has fallen below the tie: for an amount above
\* zero when the product is short of m / 2, for an amount below zero when
\* its magnitude exceeds m / 2.
EqualShare(amount, length) ==
    LET twice == 2 * RoundFactor * amount
        unit == Scale * length
        nearest == (twice + unit) \div (2 * unit)
        tie == twice % unit = 0 /\ (twice \div unit) % 2 = 1
        m == Abs(twice \div unit)
        below == IF amount > 0 THEN TieFallsShort(m) ELSE TieOvershoots(m)
    IN  IF tie /\ below THEN nearest - 1 ELSE nearest

\* calculateDefaultSplits (lines 364-399): every method gives each
\* participant the rounded equal share.
calculateDefaultSplits(participants, amount, method) ==
    LET share == CASE method = "equal" -> EqualShare(amount, Len(participants))
                   [] method = "exact" -> EqualShare(amount, Len(participants))
                   [] method = "percentage" -> EqualShare(amount, Len(participants))
    IN  [u \in {participants[k] : k \in 1..Len(participants)} |-> share]

\* A call may start: the client has none in flight.
ExpenseMayStart(c) == expenseRuns[c].pc = "idle" /\ expenseCalls < MaxExpenseCalls

\* The call is made and returns after its first request.
ExpenseCallEnds(fn, id, fields, result) ==
    /\ expenseCall' = [fn |-> fn, id |-> id, fields |-> fields, result |-> result]
    /\ expenseCalls' = expenseCalls + 1
    /\ UNCHANGED expenseRuns

\* The call is made and its first request served; the call goes on at pc.
ExpenseCallStarts(c, fn, at, id, updates) ==
    /\ expenseRuns' = [expenseRuns EXCEPT ![c] =
                          [fn |-> fn, pc |-> at, id |-> id, updates |-> updates]]
    /\ expenseCalls' = expenseCalls + 1
    /\ UNCHANGED expenseCall

\* The call in flight returns.
ExpenseCallReturns(c, result) ==
    /\ expenseCall' = [fn |-> expenseRuns[c].fn, id |-> expenseRuns[c].id,
                       fields |-> DOMAIN expenseRuns[c].updates, result |-> result]
    /\ expenseRuns' = [expenseRuns EXCEPT ![c] = NoExpenseRun]
    /\ UNCHANGED expenseCalls

\* Lines 36-39: the participants given, with the creator added at the end
\* when missing.
WithCreator(participants, user) ==
    IF Includes(participants, user) THEN participants ELSE Append(participants, user)

\* addExpense (lines 29-72) without splits: the splits are computed and the
\* row inserted.  No participants given is the list of the creator alone.
AddExpense(c) ==
    /\ ExpenseMayStart(c) /\ Len(expenses) < MaxExpenses
    /\ \E user \in ExpenseUsers, amount \in ExpenseAmounts, group \in ExpenseGroups,
          given \in ParticipantLists \cup {<<>>}, method \in SplitMethods :
        LET participants == WithCreator(given, user)
        IN  /\ expenses' = Append(expenses,
                   [group_id |-> group, user_id |-> user, amount |-> amount,
                    participants |-> participants, split_method |-> method,
                    splits |-> calculateDefaultSplits(participants, amount, method)])
            /\ ExpenseCallEnds("addExpense", Len(expenses) + 1, {}, "data")
    /\ UNCHANGED <<debtVars, accountVars, groupVars>>

\* addExpense, lines 56-71: the insert fails and the call returns the error.
AddExpenseFails(c) ==
    /\ ExpenseMayStart(c)
    /\ ExpenseCallEnds("addExpense", 0, {}, "error")
    /\ UNCHANGED <<debtVars, accountVars, groupVars, expenses>>

\* updates[field] || fallback: the amounts (none is 0) and lists here are
\* all truthy.
FieldOr(updates, field, fallback) ==
    IF field \in DOMAIN updates THEN updates[field] ELSE fallback

\* Lines 103-111: the updates with the splits the call adds to them.
WithSplits(updates) ==
    LET participants == FieldOr(updates, "participants", <<>>)
        amount == FieldOr(updates, "amount", 0)
        splitMethod == FieldOr(updates, "split_method", "equal")
    IN  IF Len(participants) > 0 /\ amount > 0
        THEN [f \in DOMAIN updates \cup {"splits"} |->
                 IF f = "splits"
                 THEN calculateDefaultSplits(participants, amount, splitMethod)
                 ELSE updates[f]]
        ELSE updates

\* updateExpense, lines 91-111: the owner of the expense is read; the call
\* returns an error when the request fails, gives no row or gives another
\* owner, and adds the splits to the updates otherwise.
UpdateExpenseFetch(c) ==
    /\ ExpenseMayStart(c)
    /\ \E id \in 1..MaxExpenses, updates \in ExpenseUpdates, user \in ExpenseUsers,
          served \in BOOLEAN :
        IF served /\ ExpenseExists(id) /\ expenses[id].user_id = user
        THEN ExpenseCallStarts(c, "updateExpense", "update", id, updates)
        ELSE ExpenseCallEnds("updateExpense", id, DOMAIN updates, "error")
    /\ UNCHANGED <<debtVars, accountVars, groupVars, expenses>>

\* updateExpense, lines 113-128: the row gets the updates; .single() gives
\* an error when the row is gone.
UpdateExpense(c) ==
    /\ expenseRuns[c].fn = "updateExpense" /\ expenseRuns[c].pc = "update"
    /\ IF ExpenseExists(expenseRuns[c].id)
       THEN /\ expenses' = [expenses EXCEPT ![expenseRuns[c].id] =
                               ApplyUpdates(@, WithSplits(expenseRuns[c].updates))]
            /\ ExpenseCallReturns(c, "data")
       ELSE /\ UNCHANGED expenses
            /\ ExpenseCallReturns(c, "error")
    /\ UNCHANGED <<debtVars, accountVars, groupVars>>

\* updateExpense, lines 113-128: the update fails.
UpdateExpenseFails(c) ==
    /\ expenseRuns[c].fn = "updateExpense" /\ expenseRuns[c].pc = "update"
    /\ ExpenseCallReturns(c, "error")
    /\ UNCHANGED <<debtVars, accountVars, groupVars, expenses>>

\* deleteExpense, lines 143-152: the owner of the expense is read; the call
\* returns an error when the request fails, gives no row or gives another
\* owner.
DeleteExpenseFetch(c) ==
    /\ ExpenseMayStart(c)
    /\ \E id \in 1..MaxExpenses, user \in ExpenseUsers, served \in BOOLEAN :
        IF served /\ ExpenseExists(id) /\ expenses[id].user_id = user
        THEN ExpenseCallStarts(c, "deleteExpense", "delete", id, <<>>)
        ELSE ExpenseCallEnds("deleteExpense", id, {}, "error")
    /\ UNCHANGED <<debtVars, accountVars, groupVars, expenses>>

\* deleteExpense, lines 154-163: the row is deleted, if it is still there.
DeleteExpense(c) ==
    /\ expenseRuns[c].fn = "deleteExpense" /\ expenseRuns[c].pc = "delete"
    /\ expenses' = [expenses EXCEPT ![expenseRuns[c].id] = NoExpense]
    /\ ExpenseCallReturns(c, "data")
    /\ UNCHANGED <<debtVars, accountVars, groupVars>>

\* deleteExpense, lines 154-163: the delete fails.
DeleteExpenseFails(c) ==
    /\ expenseRuns[c].fn = "deleteExpense" /\ expenseRuns[c].pc = "delete"
    /\ ExpenseCallReturns(c, "error")
    /\ UNCHANGED <<debtVars, accountVars, groupVars, expenses>>

ExpensesNext ==
    \/ \E c \in ExpenseClients : AddExpense(c)
    \/ \E c \in ExpenseClients : AddExpenseFails(c)
    \/ \E c \in ExpenseClients : UpdateExpenseFetch(c)
    \/ \E c \in ExpenseClients : UpdateExpense(c)
    \/ \E c \in ExpenseClients : UpdateExpenseFails(c)
    \/ \E c \in ExpenseClients : DeleteExpenseFetch(c)
    \/ \E c \in ExpenseClients : DeleteExpense(c)
    \/ \E c \in ExpenseClients : DeleteExpenseFails(c)

\* ------------------------------------------------------------------------
\* The groups service (src/services/auth.ts and src/unnamed/part_002).  The
\* tables live in the hosted database; a call is a sequence of requests to
\* it, one per await, the requests of calls made by different clients
\* interleave, and a request may fail.  A row's id is its index in its
\* table; a deleted row leaves its index behind.

MaxGroups == 1
MaxMembers == 4
MaxGroupCalls == 4

GroupClients == {1, 2}

GroupUsers == {"u1", "u2", "u3"}

Roles == {"admin", "member"}

\* The index of a deleted row of group_members: no request matches it.
NoMember == [group_id |-> 0, user_id |-> "", role |-> "", status |-> "deleted"]

NoGroupCall ==
    [fn |-> "none", group |-> 0, user |-> "", requester |-> "", role |-> "",
     result |-> "none"]

NoGroupRun ==
    [fn |-> "none", pc |-> "idle", group |-> 0, user |-> "", requester |-> "",
     role |-> "", existing |-> 0]

GroupsIdle ==
    /\ groups = <<>>
    /\ members = <<>>
    /\ groupRuns = [c \in GroupClients |-> NoGroupRun]
    /\ groupCall = NoGroupCall
    /\ groupCalls = 0

\* .from('groups') ... .eq('id', g): the row is in the table.
GroupExists(g) == g \in 1..Len(groups) /\ groups[g]

\* .eq('group_id', g).eq('user_id', u): the rows of the group and the user.
MemberRows(g, u) ==
    {id \in 1..Len(members) : members[id].group_id = g /\ members[id].user_id = u}

\* .eq('group_id', g).eq('user_id', u).eq('status', 'active')
ActiveRows(g, u) == {id \in MemberRows(g, u) : members[id].status = "active"}

\* .single() gives the row when the request matches exactly one, and an
\* error otherwise.
Single(rows) == Cardinality(rows) = 1

TheRow(rows) == CHOOSE id \in rows : TRUE

\* .eq('status', 'active').single() gives a membership.
ActiveMember(g, u) == Single(ActiveRows(g, u))

\* requesterMembership.role === 'admin', of the membership read.
ActiveAdmin(g, u) ==
    ActiveMember(g, u) /\ members[TheRow(ActiveRows(g, u))].role = "admin"

\* A call may start: the client has none in flight.
GroupMayStart(c) == groupRuns[c].pc = "idle" /\ groupCalls < MaxGroupCalls

\* The call is made and its first request served; the call goes on at pc.
GroupCallStarts(c, fn, at, g, user, requester, role) ==
    /\ groupRuns' = [groupRuns EXCEPT ![c] =
                        [fn |-> fn, pc |-> at, group |-> g, user |-> user,
                         requester |-> requester, role |-> role, existing |-> 0]]
    /\ groupCalls' = groupCalls + 1
    /\ UNCHANGED groupCall

\* The call is made and returns after its first request.
GroupCallEnds(fn, g, user, requester, role, result) ==
    /\ groupCall' = [fn |-> fn, group |-> g, user |-> user, requester |-> requester,
                     role |-> role, result |-> result]
    /\ groupCalls' = groupCalls + 1
    /\ UNCHANGED groupRuns

\* The call in flight goes on at pc.
GroupCallGoesOn(c, at) ==
    /\ groupRuns' = [groupRuns EXCEPT ![c].pc = at]
    /\ UNCHANGED <<groupCall, groupCalls>>

\* The call in flight returns.
GroupCallReturns(c, result) ==
    /\ groupCall' = [fn |-> groupRuns[c].fn, group |-> groupRuns[c].group,
                     user |-> groupRuns[c].user, requester |-> groupRuns[c].requester,
                     role |-> groupRuns[c].role, result |-> result]
    /\ groupRuns' = [groupRuns EXCEPT ![c] = NoGroupRun]
    /\ UNCHANGED groupCalls

\* The position of the client's call in the function fn.
GroupCallAt(c, fn, at) == groupRuns[c].fn = fn /\ groupRuns[c].pc = at

\* .update(updates) on the rows ids of group_members.
UpdateRows(ids, updates) ==
    [id \in 1..Len(members) |->
        IF id \in ids THEN ApplyUpdates(members[id], updates) ELSE members[id]]

\* createGroup, lines 246-256: the row of the group is inserted.
CreateGroupInsert(c) ==
    /\ GroupMayStart(c) /\ Len(groups) < MaxGroups
    /\ \E creatorId \in GroupUsers :
        GroupCallStarts(c, "createGroup", "member", Len(groups) + 1, creatorId,
                        creatorId, "admin")
    /\ groups' = Append(groups, TRUE)
    /\ UNCHANGED <<debtVars, accountVars, expenseVars, members>>

\* createGroup, line 256: the insert into groups fails.
CreateGroupInsertFails(c) ==
    /\ GroupMayStart(c)
    /\ \E creatorId \in GroupUsers :
        GroupCallEnds("createGroup", 0, creatorId, creatorId, "admin", "error")
    /\ UNCHANGED <<debtVars, accountVars, expenseVars, groups, members>>

\* createGroup, lines 259-267 and 279: the creator's membership is inserted
\* and the group returned.
CreateGroupMember(c) ==
    /\ GroupCallAt(c, "createGroup", "member") /\ Len(members) < MaxMembers
    /\ members' = Append(members,
           [group_id |-> groupRuns[c].group, user_id |-> groupRuns[c].user,
            role |-> "admin", status |-> "active"])
    /\ GroupCallReturns(c, "data")
    /\ UNCHANGED <<debtVars, accountVars, expenseVars, groups>>

\* createGroup, line 269: the insert into group_members fails.
CreateGroupMemberFails(c) ==
    /\ GroupCallAt(c, "createGroup", "member")
    /\ GroupCallGoesOn(c, "delete")
    /\ UNCHANGED <<debtVars, accountVars, expenseVars, groups, members>>

\* createGroup, lines 271-272: the row of the group is deleted and the
\* error of the insert returned.
CreateGroupDelete(c) ==
    /\ GroupCallAt(c, "createGroup", "delete")
    /\ groups' = [groups EXCEPT ![groupRuns[c].group] = FALSE]
    /\ GroupCallReturns(c, "error")
    /\ UNCHANGED <<debtVars, accountVars, expenseVars, members>>

\* createGroup, lines 271-272: the delete fails; its result is not looked
\* at and the error of the insert is returned.
CreateGroupDeleteFails(c) ==
    /\ GroupCallAt(c, "createGroup", "delete")
    /\ GroupCallReturns(c, "error")
    /\ UNCHANGED <<debtVars, accountVars, expenseVars, groups, members>>

\* addGroupMember, lines 469-479: the inviter's active membership is read;
\* the call returns an error when the request fails or gives none.
AddGroupMemberInviter(c) ==
    /\ GroupMayStart(c)
    /\ \E g \in 1..MaxGroups, userIdToAdd \in GroupUsers, inviterId \in GroupUsers,
          role \in Roles, served \in BOOLEAN :
        IF served /\ ActiveMember(g, inviterId)
        THEN GroupCallStarts(c, "addGroupMember", "existing", g, userIdToAdd, inviterId, role)
        ELSE GroupCallEnds("addGroupMember", g, userIdToAdd, inviterId, role, "error")
    /\ UNCHANGED <<debtVars, accountVars, expenseVars, groups, members>>

\* addGroupMember, lines 482-492: the membership of the user is read.  An
\* active one ends the call with an error, another one is to be made active
\* again; a request that fails or gives no single row leads to the insert.
AddGroupMemberExisting(c) ==
    /\ GroupCallAt(c, "addGroupMember", "existing")
    /\ \E served \in BOOLEAN :
        LET rows == MemberRows(groupRuns[c].group, groupRuns[c].user)
            existingMember == IF served /\ Single(rows) THEN TheRow(rows) ELSE 0
        IN  IF existingMember = 0 THEN GroupCallGoesOn(c, "insert")
            ELSE IF members[existingMember].status = "active"
                 THEN GroupCallReturns(c, "error")
                 ELSE /\ groupRuns' = [groupRuns EXCEPT ![c].pc = "reactivate",
                                                        ![c].existing = existingMember]
                      /\ UNCHANGED <<groupCall, groupCalls>>
    /\ UNCHANGED <<debtVars, accountVars, expenseVars, groups, members>>

\* addGroupMember, lines 494-503: the row read is made active with the role
\* given; .single() gives an error when the row is gone.
AddGroupMemberReactivate(c) ==
    /\ GroupCallAt(c, "addGroupMember", "reactivate")
    /\ LET existing == groupRuns[c].existing
       IN  IF members[existing] = NoMember
           THEN UNCHANGED members /\ GroupCallReturns(c, "error")
           ELSE /\ members' = UpdateRows({existing},
                                  [status |-> "active", role |-> groupRuns[c].role])
                /\ GroupCallReturns(c, "data")
    /\ UNCHANGED <<debtVars, accountVars, expenseVars, groups>>

\* addGroupMember, lines 508-529: a membership is inserted with the role
\* given.
AddGroupMemberInsert(c) ==
    /\ GroupCallAt(c, "addGroupMember", "insert") /\ Len(members) < MaxMembers
    /\ members' = Append(members,
           [group_id |-> groupRuns[c].group, user_id |-> groupRuns[c].user,
            role |-> groupRuns[c].role, status |-> "active"])
    /\ GroupCallReturns(c, "data")
    /\ UNCHANGED <<debtVars, accountVars, expenseVars, groups>>

\* addGroupMember, lines 494 and 516: the update or the insert fails.
AddGroupMemberWriteFails(c) ==
    /\ GroupCallAt(c, "addGroupMember", "reactivate") \/ GroupCallAt(c, "addGroupMember", "insert")
    /\ GroupCallReturns(c, "error")
    /\ UNCHANGED <<debtVars, accountVars, expenseVars, groups, members>>

\* update({ status: 'left' })
Left == [status |-> "left"]

\* removeGroupMember, lines 549 and 570-584, the user leaves: no membership
\* is read and the update is the only request.
RemoveGroupMemberLeaving(c) ==
    /\ GroupMayStart(c)
    /\ \E g \in 1..MaxGroups, userIdToRemove \in GroupUsers, served \in BOOLEAN :
        /\ members' = IF served THEN UpdateRows(ActiveRows(g, userIdToRemove), Left)
                      ELSE members
        /\ GroupCallEnds("removeGroupMember", g, userIdToRemove, userIdToRemove, "",
                         IF served THEN "data" ELSE "error")
    /\ UNCHANGED <<debtVars, accountVars, expenseVars, groups>>

\* removeGroupMember, lines 551-564: the requester removes another user and
\* the requester's active membership is read; the call returns an error when
\* the request fails, gives none or gives one that is no admin's.
RemoveGroupMemberRequester(c) ==
    /\ GroupMayStart(c)
    /\ \E g \in 1..MaxGroups, userIdToRemove \in GroupUsers, requesterId \in GroupUsers,
          served \in BOOLEAN :
        /\ userIdToRemove # requesterId
        /\ IF served /\ ActiveAdmin(g, requesterId)
           THEN GroupCallStarts(c, "removeGroupMember", "update", g, userIdToRemove,
                                requesterId, "")
           ELSE GroupCallEnds("removeGroupMember", g, userIdToRemove, requesterId, "",
                              "error")
    /\ UNCHANGED <<debtVars, accountVars, expenseVars, groups, members>>

\* removeGroupMember, lines 570-584: the active memberships of the user get
\* the status left, however many there are.
RemoveGroupMemberUpdate(c) ==
    /\ GroupCallAt(c, "removeGroupMember", "update")
    /\ members' = UpdateRows(ActiveRows(groupRuns[c].group, groupRuns[c].user), Left)
    /\ GroupCallReturns(c, "data")
    /\ UNCHANGED <<debtVars, accountVars, expenseVars, groups>>

\* removeGroupMember, lines 570-584: the update fails.
RemoveGroupMemberUpdateFails(c) ==
    /\ GroupCallAt(c, "removeGroupMember", "update")
    /\ GroupCallReturns(c, "error")
    /\ UNCHANGED <<debtVars, accountVars, expenseVars, groups, members>>

\* updateMemberRole, lines 606-616: the requester's active membership is
\* read; the call returns an error when the request fails, gives none or
\* gives one that is no admin's.
UpdateMemberRoleRequester(c) ==
    /\ GroupMayStart(c)
    /\ \E g \in 1..MaxGroups, userIdToUpdate \in GroupUsers, requesterId \in GroupUsers,
          newRole \in Roles, served \in BOOLEAN :
        IF served /\ ActiveAdmin(g, requesterId)
        THEN GroupCallStarts(c, "updateMemberRole", "update", g, userIdToUpdate,
                             requesterId, newRole)
        ELSE GroupCallEnds("updateMemberRole", g, userIdToUpdate, requesterId, newRole,
                           "error")
    /\ UNCHANGED <<debtVars, accountVars, expenseVars, groups, members>>

\* updateMemberRole, lines 619-634: the active membership of the user gets
\* the role.  .single() gives an error when the update matches no row or
\* several; whether several are then updated or none is the database's.
UpdateMemberRoleUpdate(c) ==
    /\ GroupCallAt(c, "updateMemberRole", "update")
    /\ LET rows == ActiveRows(groupRuns[c].group, groupRuns[c].user)
       IN  /\ \E applied \in BOOLEAN :
                /\ Single(rows) => applied
                /\ members' = IF applied
                              THEN UpdateRows(rows, [role |-> groupRuns[c].role])
                              ELSE members
           /\ GroupCallReturns(c, IF Single(rows) THEN "data" ELSE "error")
    /\ UNCHANGED <<debtVars, accountVars, expenseVars, groups>>

\* updateMemberRole, lines 619-634: the update fails.
UpdateMemberRoleUpdateFails(c) ==
    /\ GroupCallAt(c, "updateMemberRole", "update")
    /\ GroupCallReturns(c, "error")
    /\ UNCHANGED <<debtVars, accountVars, expenseVars, groups, members>>

\* deleteGroup, lines 649-659: the requester's active membership is read;
\* the call returns an error when the request fails, gives none or gives
\* one that is no admin's.
DeleteGroupRequester(c) ==
    /\ GroupMayStart(c)
    /\ \E g \in 1..MaxGroups, requesterId \in GroupUsers, served \in BOOLEAN :
        IF served /\ ActiveAdmin(g, requesterId)
        THEN GroupCallStarts(c, "deleteGroup", "expenses", g, "", requesterId, "")
        ELSE GroupCallEnds("deleteGroup", g, "", requesterId, "", "error")
    /\ UNCHANGED <<debtVars, accountVars, expenseVars, groups, members>>

\* deleteGroup, lines 666-671: the expenses of the group are deleted.
DeleteGroupExpenses(c) ==
    /\ GroupCallAt(c, "deleteGroup", "expenses")
    /\ expenses' = [id \in 1..Len(expenses) |->
                       IF expenses[id].group_id = groupRuns[c].group
                       THEN NoExpense ELSE expenses[id]]
    /\ GroupCallGoesOn(c, "members")
    /\ UNCHANGED <<debtVars, accountVars, expenseRuns, expenseCall, expenseCalls,
                   groups, members>>

\* deleteGroup, lines 673-678: the memberships of the group are deleted.
DeleteGroupMembers(c) ==
    /\ GroupCallAt(c, "deleteGroup", "members")
    /\ members' = [id \in 1..Len(members) |->
                      IF members[id].group_id = groupRuns[c].group
                      THEN NoMember ELSE members[id]]
    /\ GroupCallGoesOn(c, "group")
    /\ UNCHANGED <<debtVars, accountVars, expenseVars, groups>>

\* deleteGroup, lines 680-689: the row of the group is deleted.
DeleteGroupGroup(c) ==
    /\ GroupCallAt(c, "deleteGroup", "group")
    /\ groups' = [g \in 1..Len(groups) |-> groups[g] /\ g # groupRuns[c].group]
    /\ GroupCallReturns(c, "data")
    /\ UNCHANGED <<debtVars, accountVars, expenseVars, members>>

\* deleteGroup, lines 671, 678 and 689: a delete fails and the call returns
\* its error, leaving what it has deleted so far deleted.
DeleteGroupFails(c) ==
    /\ groupRuns[c].fn = "deleteGroup"
    /\ GroupCallReturns(c, "error")
    /\ UNCHANGED <<debtVars, accountVars, expenseVars, groups, members>>

\* createGroup of part_002, lines 10-16: the row of the group is inserted,
\* and nothing else.
Part002CreateGroup(c) ==
    /\ GroupMayStart(c) /\ Len(groups) < MaxGroups
    /\ groups' = Append(groups, TRUE)
    /\ GroupCallEnds("part_002.createGroup", Len(groups) + 1, "", "", "", "data")
    /\ UNCHANGED <<debtVars, accountVars, expenseVars, members>>

\* createGroup of part_002, lines 10-16: the insert fails.
Part002CreateGroupFails(c) ==
    /\ GroupMayStart(c)
    /\ GroupCallEnds("part_002.createGroup", 0, "", "", "", "error")
    /\ UNCHANGED <<debtVars, accountVars, expenseVars, groups, members>>

\* addGroupMember of part_002, lines 47-53: the membership given is
\* inserted, whatever group, user, role and status it names.
Part002AddGroupMember(c) ==
    /\ GroupMayStart(c) /\ Len(members) < MaxMembers
    /\ \E g \in 1..MaxGroups, user \in GroupUsers, role \in Roles,
          status \in {"active", "left"} :
        /\ members' = Append(members,
               [group_id |-> g, user_id |-> user, role |-> role, status |-> status])
        /\ GroupCallEnds("part_002.addGroupMember", g, user, "", role, "data")
    /\ UNCHANGED <<debtVars, accountVars, expenseVars, groups>>

\* addGroupMember of part_002, lines 47-53: the insert fails.
Part002AddGroupMemberFails(c) ==
    /\ GroupMayStart(c)
    /\ \E g \in 1..MaxGroups, user \in GroupUsers, role \in Roles :
        GroupCallEnds("part_002.addGroupMember", g, user, "", role, "error")
    /\ UNCHANGED <<debtVars, accountVars, expenseVars, groups, members>>

\* leaveGroup of part_002, lines 64-70: the memberships of the group and
\* the user get the status left, the active ones and the others; a request
\* that fails changes none.
Part002LeaveGroup(c) ==
    /\ GroupMayStart(c)
    /\ \E g \in 1..MaxGroups, user \in GroupUsers, served \in BOOLEAN :
        /\ members' = IF served THEN UpdateRows(MemberRows(g, user), Left) ELSE members
        /\ GroupCallEnds("part_002.leaveGroup", g, user, user, "",
                         IF served THEN "data" ELSE "error")
    /\ UNCHANGED <<debtVars, accountVars, expenseVars, groups>>

GroupsNext ==
    \/ \E c \in GroupClients : CreateGroupInsert(c)
    \/ \E c \in GroupClients : CreateGroupInsertFails(c)
    \/ \E c \in GroupClients : CreateGroupMember(c)
    \/ \E c \in GroupClients : CreateGroupMemberFails(c)
    \/ \E c \in GroupClients : CreateGroupDelete(c)
    \/ \E c \in GroupClients : CreateGroupDeleteFails(c)
    \/ \E c \in GroupClients : AddGroupMemberInviter(c)
    \/ \E c \in GroupClients : AddGroupMemberExisting(c)
    \/ \E c \in GroupClients : AddGroupMemberReactivate(c)
    \/ \E c \in GroupClients : AddGroupMemberInsert(c)
    \/ \E c \in GroupClients : AddGroupMemberWriteFails(c)
    \/ \E c \in GroupClients : RemoveGroupMemberLeaving(c)
    \/ \E c \in GroupClients : RemoveGroupMemberRequester(c)
    \/ \E c \in GroupClients : RemoveGroupMemberUpdate(c)
    \/ \E c \in GroupClients : RemoveGroupMemberUpdateFails(c)
    \/ \E c \in GroupClients : UpdateMemberRoleRequester(c)
    \/ \E c \in GroupClients : UpdateMemberRoleUpdate(c)
    \/ \E c \in GroupClients : UpdateMemberRoleUpdateFails(c)
    \/ \E c \in GroupClients : DeleteGroupRequester(c)
    \/ \E c \in GroupClients : DeleteGroupExpenses(c)
    \/ \E c \in GroupClients : DeleteGroupMembers(c)
    \/ \E c \in GroupClients : DeleteGroupGroup(c)
    \/ \E c \in GroupClients : DeleteGroupFails(c)
    \/ \E c \in GroupClients : Part002CreateGroup(c)
    \/ \E c \in GroupClients : Part002CreateGroupFails(c)
    \/ \E c \in GroupClients : Part002AddGroupMember(c)
    \/ \E c \in GroupClients : Part002AddGroupMemberFails(c)
    \/ \E c \in GroupClients : Part002LeaveGroup(c)

\* ------------------------------------------------------------------------
\* Specifications.

\* No row in any table, no call in flight.
ServicesIdle == AccountsIdle /\ GroupsIdle /\ ExpensesIdle

\* Any debt list of the main input set, one fixed argument for the orderer.
Init ==
    /\ debts \in SeqsUpTo(MainDebts, MaxDebts)
    /\ settlementsIn = OrderScenario
    /\ Idle
    /\ ServicesIdle

Spec == Init /\ [][Next]_vars

\* Any settlement list for the orderer, the documented debts or none.
InitOrder ==
    /\ debts \in {<<>>, ScenarioDebts}
    /\ settlementsIn \in SeqsUpTo(OrderSettlements, MaxSettlements)
    /\ Idle
    /\ ServicesIdle

OrderSpec == InitOrder /\ [][Next]_vars

\* The documented debts, in any order, number and amount.
InitScenario ==
    /\ debts \in SeqsUpTo(ScenarioDebtSet, MaxDebts)
    /\ settlementsIn = OrderScenario
    /\ Idle
    /\ ServicesIdle

ScenarioSpec == InitScenario /\ [][Next]_vars

\* Calls one after the other on the same arguments.
CallsNext == Next \/ CallAgain

InitCalls ==
    /\ debts \in SeqsUpTo(CallsDebts, MaxDebts)
    /\ settlementsIn = OrderScenario
    /\ Idle
    /\ ServicesIdle

CallsSpec == InitCalls /\ [][CallsNext]_vars

\* Debts whose currency codes are letters or digits.
InitCurrency ==
    /\ debts \in SeqsUpTo(CurrencyDebts, MaxDebts)
    /\ settlementsIn = OrderScenario
    /\ Idle
    /\ ServicesIdle

CurrencySpec == InitCurrency /\ [][Next]_vars

\* No debts are looked at: the accounts service alone.
InitAccounts ==
    /\ debts = <<>> /\ settlementsIn = <<>>
    /\ Idle
    /\ ServicesIdle

AccountsSpec == InitAccounts /\ [][AccountsNext]_vars

\* No debts are looked at: the groups service alone.
InitGroups ==
    /\ debts = <<>> /\ settlementsIn = <<>>
    /\ Idle
    /\ ServicesIdle

GroupsSpec == InitGroups /\ [][GroupsNext]_vars

\* No debts are looked at: the expenses service alone.
InitExpenses ==
    /\ debts = <<>> /\ settlementsIn = <<>>
    /\ Idle
    /\ ServicesIdle

ExpensesSpec == InitExpenses /\ [][ExpensesNext]_vars

\* Any debt list whose amounts are doubles off the grid.
InitDecimal ==
    /\ debts \in SeqsUpTo(DecimalDebts, MaxDebts)
    /\ settlementsIn = <<>>
    /\ Idle
    /\ ServicesIdle

DecimalSpec == InitDecimal /\ [][DecimalNext]_vars

\* ------------------------------------------------------------------------
\* Properties.

Currencies == {"EUR", "USD", "840", "978"}

SimplifyReturned == op = "simplifyDebts" /\ pc = "done"

\* The while loop of a simplifyCurrencyDebts call is about to start: balances
\* is what calculateNetBalances returned.
Aggregated == pc = "while" /\ iterations = 0

RECURSIVE SumBalances(_, _)
SumBalances(bs, k) ==
    IF k > Len(bs) THEN 0 ELSE bs[k].balance + SumBalances(bs, k + 1)

\* The debts of ds in currency cur, in the order of ds.
DebtsIn(ds, cur) == LET InCur(d) == d.currency = cur IN SelectSeq(ds, InCur)

\* The net balances of currency cur, as the code aggregates them.
NetBalances(ds, cur) == calculateNetBalances(DebtsIn(ds, cur), cur)

CurrenciesOf(ds) == {ds[k].currency : k \in 1..Len(ds)}

RECURSIVE SumAmounts(_, _)
SumAmounts(ss, k) ==
    IF k > Len(ss) THEN 0 ELSE ss[k].amount + SumAmounts(ss, k + 1)

\* The settlements of ss in currency cur that user pays, and receives.
PaidBy(ss, user, cur) ==
    LET Mine(x) == x.from = user /\ x.currency = cur IN SelectSeq(ss, Mine)

ReceivedBy(ss, user, cur) ==
    LET Mine(x) == x.to = user /\ x.currency = cur IN SelectSeq(ss, Mine)

SettlementsIn(ss, cur) == LET InCur(x) == x.currency = cur IN SelectSeq(ss, InCur)

\* Conservation on the grid: when every amount is a multiple of 1 / Scale no
\* addition rounds, and the net balances calculateNetBalances returns for a
\* currency sum to exactly zero, whatever the debts (a debt to oneself, an
\* amount of zero or below included).
ConservationOnGrid == Aggregated => SumBalances(balances, 1) = 0

\* Balances aggregated from a list on the grid holding a debt to oneself and
\* a non-positive amount, some balance being non-zero.
ConservationOnGridWitness ==
    /\ Aggregated
    /\ \E k \in 1..Len(debts) : debts[k].from = debts[k].to /\ debts[k].currency = currency
    /\ \E k \in 1..Len(debts) : debts[k].amount < 0 /\ debts[k].currency = currency
    /\ \E k \in 1..Len(balances) : balances[k].balance # 0

RECURSIVE ExactTotal(_, _)
\* The sum of the balances bs[k..] as a real number, nothing rounded.
ExactTotal(bs, k) ==
    IF k > Len(bs) THEN DoubleZero
    ELSE ExactSum(bs[k].balance, ExactTotal(bs, k + 1))

\* |x| <= 1e-9: x counts units of 2^-Fraction, and |x| * 10^9 <= 1.
WithinTolerance(x) ==
    ~NatLess(Shift(<<1>>, Fraction), NatProduct(x.mag, Limbs(1000000000)))

\* x is a multiple of 1 / Scale.
OnGrid(x) == LowBits(x.mag, Fraction - (BitLength(Scale) - 1)) = <<>>

\* The debts of the currency whose balances were aggregated are all on the
\* grid.
DebtsOnGrid ==
    \A k \in 1..Len(debts) : debts[k].currency = currency => OnGrid(debts[k].amount)

Residual(b, paid, received) == b * RoundFactor + (paid - received) * Scale

\* |x| <= 0.01, x in 1/(Scale * RoundFactor)
WithinEpsilon(x) == Abs(x) * EpsilonInverse <= Scale * RoundFactor

\* C2. Full discharge: applying the settlements simplifyDebts returns for a
\* currency to the net balances of that currency (a payment cancels that
\* much of the payer's liability and of the payee's credit) leaves every
\* balance within 0.01 of zero.
C2_FullDischarge ==
    SimplifyReturned =>
        \A cur \in CurrenciesOf(debts) :
            LET bs == NetBalances(debts, cur) IN
            \A k \in 1..Len(bs) :
                WithinEpsilon(Residual(bs[k].balance,
                    SumAmounts(PaidBy(simplified, bs[k].userId, cur), 1),
                    SumAmounts(ReceivedBy(simplified, bs[k].userId, cur), 1)))

NumCreditors(bs) == Cardinality({k \in 1..Len(bs) : bs[k].balance * EpsilonInverse > Scale})

NumDebtors(bs) == Cardinality({k \in 1..Len(bs) : bs[k].balance * EpsilonInverse < 0 - Scale})

\* C3. Settlement bound: a currency whose net balances hold c >= 1 creditors
\* and d >= 1 debtors gets at most c + d - 1 settlements.
C3_SettlementBound ==
    SimplifyReturned =>
        \A cur \in CurrenciesOf(debts) :
            LET bs == NetBalances(debts, cur)
                c == NumCreditors(bs)
                d == NumDebtors(bs)
            IN  (c >= 1 /\ d >= 1) => Len(SettlementsIn(simplified, cur)) <= c + d - 1

\* C3 witness: two creditors, two debtors and the three settlements the
\* bound allows.
C3_Witness ==
    /\ SimplifyReturned
    /\ \E cur \in CurrenciesOf(debts) :
        /\ NumCreditors(NetBalances(debts, cur)) = 2
        /\ NumDebtors(NetBalances(debts, cur)) = 2
        /\ Len(SettlementsIn(simplified, cur)) = 3

\* C4. Every settlement simplifyDebts returns has an amount above zero, and
\* an iteration pushes a settlement only for a transfer above 0.01, the
\* amount pushed being above zero.
C4_PositiveAmounts ==
    /\ [](SimplifyReturned => \A k \in 1..Len(simplified) : simplified[k].amount > 0)
    /\ [][Len(settlements') > Len(settlements) =>
            /\ GreaterThanEpsilon(SettlementAmount(Match))
            /\ settlements'[Len(settlements')].amount > 0]_vars

\* C4 witness: a transfer just above 0.01 (12/1024) was returned, rounded
\* to one hundredth.
C4_Witness ==
    /\ SimplifyReturned
    /\ \E k \in 1..Len(simplified) : simplified[k].amount = 1

\* The debts of ds with an amount above zero, in the order of ds.
PositiveDebts(ds) == LET Positive(d) == d.amount > 0 IN SelectSeq(ds, Positive)

NonPositiveDebts(ds) == LET NonPositive(d) == d.amount <= 0 IN SelectSeq(ds, NonPositive)

\* C5. A debt with an amount of zero or below is left out of the
\* aggregation: simplifyDebts returns what it returns for the list without
\* those debts.
C5_NonPositiveExcluded ==
    SimplifyReturned => simplified = simplifyDebts(PositiveDebts(debts))

ExposureReturned == op = "calculateUserExposure" /\ pc = "done"

\* The debts of ds in currency cur owed to user, and owed by user.
OwedTo(ds, user, cur) ==
    LET Mine(d) == d.to = user /\ d.currency = cur IN SelectSeq(ds, Mine)

OwedBy(ds, user, cur) ==
    LET Mine(d) == d.from = user /\ d.currency = cur IN SelectSeq(ds, Mine)

\* C6. calculateUserExposure: totalOwed[c] is the sum of the debts to the
\* user in currency c and totalOwing[c] the sum of the debts of the user in
\* currency c, for every debt, a debt of the user to themself included.
C6_Exposure ==
    ExposureReturned =>
        \A cur \in Currencies :
            /\ GetOrZero(exposure.totalOwed, cur) = SumAmounts(OwedTo(debts, userId, cur), 1)
            /\ GetOrZero(exposure.totalOwing, cur) = SumAmounts(OwedBy(debts, userId, cur), 1)

OrderReturned == op = "optimizeSettlementOrder" /\ pc = "done"

\* Currency codes in ascending order, as strings.
CodeBefore(a, b) ==
    <<a, b>> \in {<<"840", "978">>, <<"840", "EUR">>, <<"840", "USD">>,
                  <<"978", "EUR">>, <<"978", "USD">>, <<"EUR", "USD">>}

\* a comes before b by currency ascending, then amount descending.
KeyBefore(a, b) ==
    \/ CodeBefore(a.currency, b.currency)
    \/ a.currency = b.currency /\ a.amount > b.amount

SameKey(a, b) == a.currency = b.currency /\ a.amount = b.amount

\* Where a stable sort by the key puts element k of ss.
StablePosition(ss, k) ==
    Cardinality({m \in 1..Len(ss) : KeyBefore(ss[m], ss[k])})
    + Cardinality({m \in 1..k : SameKey(ss[m], ss[k])})

\* C7. optimizeSettlementOrder returns its input sorted by currency code
\* ascending, then amount descending, settlements of equal currency and
\* amount keeping their input order; [X->Y 5 EUR, X->Y 20 USD, A->B 20 EUR]
\* gives EUR 20, EUR 5, USD 20.
C7_Order ==
    OrderReturned =>
        /\ Len(ordered) = Len(settlementsIn)
        /\ \A k \in 1..Len(settlementsIn) :
               ordered[StablePosition(settlementsIn, k)] = settlementsIn[k]
        /\ settlementsIn = OrderScenario =>
               ordered = <<Settlement("A", "B", 2000, "EUR"),
                           Settlement("X", "Y", 500, "EUR"),
                           Settlement("X", "Y", 2000, "USD")>>

\* C7 witness: an input that is out of order and holds two different
\* settlements of equal currency and amount, sorted.
C7_Witness ==
    /\ OrderReturned
    /\ ordered # settlementsIn
    /\ \E k, m \in 1..Len(settlementsIn) :
           /\ k < m
           /\ SameKey(settlementsIn[k], settlementsIn[m])
           /\ settlementsIn[k] # settlementsIn[m]

ValidateReturned == op = "validateDebtMatrix" /\ pc = "done"

\* C8. validateDebtMatrix reports exactly one issue for each debt with an
\* amount of zero or below, in input order, naming the amount and the pair,
\* and nothing else; isValid is false when there is such a debt.
C8_AmountIssues ==
    ValidateReturned =>
        LET bad == NonPositiveDebts(debts) IN
        /\ report.issues =
               [k \in 1..Len(bad) |->
                   [text |-> "Invalid debt amount", amount |-> bad[k].amount,
                    from |-> bad[k].from, to |-> bad[k].to, currency |-> ""]]
        /\ Len(bad) > 0 => report.isValid = FALSE

\* C8 witness: a list with an amount of zero, an amount below zero and an
\* amount above zero, validated.
C8_Witness ==
    /\ ValidateReturned
    /\ Len(report.issues) = 2
    /\ \E k \in 1..Len(debts) : debts[k].amount = 0
    /\ \E k \in 1..Len(debts) : debts[k].amount < 0
    /\ \E k \in 1..Len(debts) : debts[k].amount > 0

\* C9. validateDebtMatrix reports a list holding a debt whose from is its to
\* as invalid.
C9_SelfDebtInvalid ==
    ValidateReturned =>
        ((\E k \in 1..Len(debts) : debts[k].from = debts[k].to) => report.isValid = FALSE)

\* C10. The documented debts [A->B 10, B->C 15, C->A 5] (USD) aggregate to
\* A = -5, B = -5, C = +10 in this order, and simplifyDebts returns
\* [A->C 5, B->C 5].
C10_Scenario ==
    debts = ScenarioDebts =>
        /\ Aggregated =>
               balances = <<[userId |-> "A", balance |-> 0 - 5 * Scale, currency |-> "USD"],
                            [userId |-> "B", balance |-> 0 - 5 * Scale, currency |-> "USD"],
                            [userId |-> "C", balance |-> 10 * Scale, currency |-> "USD"]>>
        /\ SimplifyReturned =>
               simplified = <<Settlement("A", "C", 500, "USD"),
                              Settlement("B", "C", 500, "USD")>>

\* C10 witness: simplifyDebts has returned for the documented debts.
C10_Witness == debts = ScenarioDebts /\ SimplifyReturned /\ Len(simplified) = 2

\* C11. The documented example: simplifyDebts of [A->B 10, B->C 15, C->A 5]
\* (USD) is exactly [A->C 10].
C11_DocumentedExample ==
    (debts = ScenarioDebts /\ SimplifyReturned) =>
        simplified = <<Settlement("A", "C", 1000, "USD")>>

RECURSIVE UsersOf(_, _)
\* The users named by the debts ds[k..].
UsersOf(ds, k) ==
    IF k > Len(ds) THEN {} ELSE {ds[k].from, ds[k].to} \cup UsersOf(ds, k + 1)

\* C12. Per-currency independence: the settlements of currency c that
\* simplifyDebts returns are, in order, what it returns for the debts of
\* currency c alone, and they name only users of debts in currency c.
C12_CurrencyIndependence ==
    SimplifyReturned =>
        \A cur \in CurrenciesOf(debts) :
            LET mine == SettlementsIn(simplified, cur) IN
            /\ mine = simplifyDebts(DebtsIn(debts, cur))
            /\ \A k \in 1..Len(mine) :
                   {mine[k].from, mine[k].to} \subseteq UsersOf(DebtsIn(debts, cur), 1)

\* C12 witness: settlements were returned in two currencies.
C12_Witness ==
    /\ SimplifyReturned
    /\ SettlementsIn(simplified, "USD") # <<>>
    /\ SettlementsIn(simplified, "EUR") # <<>>

\* |x| <= 0.01, x in 1/Scale
BalanceWithinEpsilon(n) == Abs(n) * EpsilonInverse <= Scale

\* Small balances on the grid: a user whose net balance in a currency is at
\* most 0.01 in magnitude is in no settlement of that currency; simplifyDebts
\* returns [] for no debts and when every net balance is within 0.01 of
\* zero.  No multiple of 1 / Scale is 0.01 itself.
SmallBalancesIgnoredOnGrid ==
    SimplifyReturned =>
        /\ \A cur \in CurrenciesOf(debts) :
               LET bs == NetBalances(debts, cur)
                   mine == SettlementsIn(simplified, cur)
               IN  \A k \in 1..Len(bs) :
                       BalanceWithinEpsilon(bs[k].balance) =>
                           \A m \in 1..Len(mine) :
                               mine[m].from # bs[k].userId /\ mine[m].to # bs[k].userId
        /\ (\A cur \in CurrenciesOf(debts) :
               LET bs == NetBalances(debts, cur) IN
               \A k \in 1..Len(bs) : BalanceWithinEpsilon(bs[k].balance))
           => simplified = <<>>

\* Settlements were returned while some user's balance, not zero, was within
\* 0.01 of it.
SmallBalancesIgnoredOnGridWitness ==
    /\ SimplifyReturned
    /\ simplified # <<>>
    /\ \E cur \in CurrenciesOf(debts) :
           LET bs == NetBalances(debts, cur) IN
           /\ SettlementsIn(simplified, cur) # <<>>
           /\ \E k \in 1..Len(bs) :
                  bs[k].balance # 0 /\ BalanceWithinEpsilon(bs[k].balance)

\* The net balances of currency cur, as the code aggregates doubles.
NetBalancesDouble(ds, cur) == calculateNetBalancesDouble(DebtsIn(ds, cur), cur)

\* |x| <= 0.01, x a double
WithinEpsilonDouble(x) == ~DoubleLess(Epsilon, DoubleAbs(x))

\* The balance object k is among those the indices of list name.
Listed(list, k) == \E m \in 1..Len(list) : list[m] = k

\* C13. A user whose net balance in a currency is at most 0.01 in magnitude,
\* exactly 0.01 and -0.01 included, is neither creditor nor debtor and is in
\* no settlement of that currency; simplifyDebts returns [] for no debts and
\* when every net balance is within 0.01 of zero.
C13_SmallBalancesIgnored ==
    /\ Aggregated =>
           \A k \in 1..Len(balances) :
               WithinEpsilonDouble(balances[k].balance) =>
                   ~Listed(creditors, k) /\ ~Listed(debtors, k)
    /\ SimplifyReturned =>
           /\ \A cur \in CurrenciesOf(debts) :
                  LET bs == NetBalancesDouble(debts, cur)
                      mine == SettlementsIn(simplified, cur)
                  IN  \A k \in 1..Len(bs) :
                          WithinEpsilonDouble(bs[k].balance) =>
                              \A m \in 1..Len(mine) :
                                  mine[m].from # bs[k].userId /\ mine[m].to # bs[k].userId
           /\ (\A cur \in CurrenciesOf(debts) :
                  LET bs == NetBalancesDouble(debts, cur) IN
                  \A k \in 1..Len(bs) : WithinEpsilonDouble(bs[k].balance))
              => simplified = <<>>

\* Some net balance of currency cur is exactly x.
HasBalance(cur, x) ==
    LET bs == NetBalancesDouble(debts, cur) IN \E k \in 1..Len(bs) : bs[k].balance = x

\* C13 witness: settlements were returned in a currency in which some user's
\* net balance was exactly 0.01, and some user's net balance was exactly
\* -0.01.
C13_Witness ==
    /\ SimplifyReturned
    /\ \E cur \in CurrenciesOf(debts) :
           SettlementsIn(simplified, cur) # <<>> /\ HasBalance(cur, Epsilon)
    /\ \E cur \in CurrenciesOf(debts) : HasBalance(cur, Negate(Epsilon))

\* Debts the greedy matching settles with three transfers: A owes C 12,
\* B owes C 12 and D 12 (in 1/Scale).
GreedyDebts ==
    <<Debt("A", "C", 12, "USD"), Debt("B", "C", 12, "USD"), Debt("B", "D", 12, "USD")>>

\* Two transfers, amounts in 1/Scale, for the same balances.
BetterTransfers == <<Debt("A", "D", 12, "USD"), Debt("B", "C", 24, "USD")>>

\* The transfers ts bring every balance of bs to exactly zero.
Settles(bs, ts) ==
    /\ UsersOf(ts, 1) \subseteq {bs[k].userId : k \in 1..Len(bs)}
    /\ \A k \in 1..Len(bs) :
           bs[k].balance + SumAmounts(PaidBy(ts, bs[k].userId, bs[k].currency), 1)
                         - SumAmounts(ReceivedBy(ts, bs[k].userId, bs[k].currency), 1) = 0

\* C14. The greedy matcher is not minimal: for the debts GreedyDebts it
\* returns more settlements than a set of transfers that settles the same
\* net balances.
C14_NotMinimal ==
    (SimplifyReturned /\ debts = GreedyDebts) =>
        /\ Settles(NetBalances(debts, "USD"), BetterTransfers)
        /\ Len(simplified) > Len(BetterTransfers)

\* C14 witness: simplifyDebts has returned its three settlements for
\* GreedyDebts.
C14_Witness == SimplifyReturned /\ debts = GreedyDebts /\ Len(simplified) = 3

\* The user's accounts of the currency that carry the primary flag.
PrimaryAccounts(user, cur) ==
    {id \in 1..Len(accounts) :
        /\ accounts[id].user_id = user
        /\ accounts[id].currency = cur
        /\ accounts[id].is_primary}

\* C15. Whatever createAccount, updateAccount and setPrimaryAccount calls
\* have run or are running, no user has two primary accounts of one
\* currency.
C15_PrimaryUnique ==
    \A user \in AccountUsers, cur \in {"USD", "EUR"} :
        Cardinality(PrimaryAccounts(user, cur)) <= 1

\* The account's status becomes closed in this step.
Closes(id) ==
    /\ AccountExists(id)
    /\ accounts[id].status # "closed"
    /\ accounts'[id].status = "closed"

\* C19. An account's status becomes closed only by a closeAccount call of
\* its owner, and its balance is within 0.01 of zero when it does, whatever
\* updateAccountBalance calls run at the same time.
C19_ClosedAtZero ==
    [][\A id \in 1..MaxAccounts :
          Closes(id) =>
              /\ \E c \in Clients :
                    /\ calls[c].fn = "closeAccount"
                    /\ calls[c].accountId = id
                    /\ calls[c].userId = accounts[id].user_id
              /\ ~AbsAboveEpsilon(accounts'[id].balance)]_vars

\* Some active membership of the user in the group has the role admin.
HoldsAdmin(g, u) == \E id \in ActiveRows(g, u) : members[id].role = "admin"

\* A createGroup call of auth.ts returns in this step, after its insert
\* into groups failed or after a later request.
CreateGroupReturns ==
    /\ groupCall'.fn = "createGroup"
    /\ \/ \E c \in GroupClients :
              groupRuns[c].fn = "createGroup" /\ groupRuns'[c].pc = "idle"
       \/ groupCalls' = groupCalls + 1 /\ groupRuns' = groupRuns

\* What createGroup has returned is what the tables hold: the group with
\* its row there and its creator an active admin, or an error with no row
\* of the group.
AllOrNothing ==
    /\ groupCall.result = "data" =>
          /\ GroupExists(groupCall.group)
          /\ HoldsAdmin(groupCall.group, groupCall.user)
    /\ groupCall.result = "error" => ~GroupExists(groupCall.group)

\* C16. When createGroup returns the group, its row exists and the creator
\* is an active admin of it; when it returns an error, no row of the group
\* is left in groups, also when the insert of the membership failed and
\* the delete of the group row failed after it.
C16_AllOrNothing == [][CreateGroupReturns => AllOrNothing']_vars

\* The user becomes an active admin of the group in this step.
BecomesAdmin(g, u) == ~HoldsAdmin(g, u) /\ HoldsAdmin(g, u)'

\* The functions of auth.ts that write memberships.
MembershipCalls == {"createGroup", "addGroupMember", "updateMemberRole", "removeGroupMember"}

\* C17. By a request of createGroup, addGroupMember, updateMemberRole or
\* removeGroupMember a user becomes an admin of a group only when the call
\* is the user's createGroup of it or its requester is an active admin of
\* the group at that time.
C17_OnlyAdminsPromote ==
    [][\A g \in 1..MaxGroups, u \in GroupUsers :
          (BecomesAdmin(g, u) /\ groupCall'.fn \in MembershipCalls) =>
              \/ /\ groupCall'.fn = "createGroup"
                 /\ groupCall'.group = g
                 /\ groupCall'.requester = u
              \/ /\ groupCall'.group = g
                 /\ HoldsAdmin(g, groupCall'.requester)]_vars

\* An updateExpense call returns the updated expense in this step.
UpdateExpenseReturns ==
    /\ \E c \in ExpenseClients :
          expenseRuns[c].fn = "updateExpense" /\ expenseRuns'[c].pc = "idle"
    /\ expenseCall'.result = "data"

\* The stored splits of the expense the call was about are the ones
\* calculateDefaultSplits gives for its stored participants, amount and
\* method.
SplitsRecalculated ==
    LET row == expenses[expenseCall.id]
    IN  row.splits = calculateDefaultSplits(row.participants, row.amount, row.split_method)

\* C18. After a successful updateExpense whose updates name an amount or a
\* participants list, the stored splits are the ones calculateDefaultSplits
\* gives for the stored participants, amount and method.
C18_SplitsRecalculated ==
    [][(UpdateExpenseReturns /\ expenseCall'.fields \cap {"amount", "participants"} # {})
          => SplitsRecalculated']_vars

RECURSIVE FirstSeenFrom(_, _, _)
\* The user ids of ds[k..] in the order of their first occurrence, from
\* before to within a debt, behind those of seen.
FirstSeenFrom(ds, k, seen) ==
    IF k > Len(ds) THEN seen
    ELSE LET InSeq(q, u) == \E m \in 1..Len(q) : q[m] = u
             s1 == IF InSeq(seen, ds[k].from) THEN seen ELSE Append(seen, ds[k].from)
             s2 == IF InSeq(s1, ds[k].to) THEN s1 ELSE Append(s1, ds[k].to)
         IN  FirstSeenFrom(ds, k + 1, s2)

\* q is strictly increasing.
Increasing(q) == \A k, m \in 1..Len(q) : k < m => q[k] < q[m]

\* C20. calculateNetBalances returns one balance per user of the currency's
\* debts, in the order the users are first met; creditors and debtors keep
\* that order, all of them, whatever their size.
C20_FirstSeenOrder ==
    Aggregated =>
        /\ [k \in 1..Len(balances) |-> balances[k].userId]
               = FirstSeenFrom(DebtsIn(debts, currency), 1, <<>>)
        /\ Increasing(creditors) /\ Increasing(debtors)
        /\ {creditors[k] : k \in 1..Len(creditors)}
               = {k \in 1..Len(balances) : balances[k].balance * EpsilonInverse > Scale}
        /\ {debtors[k] : k \in 1..Len(debtors)}
               = {k \in 1..Len(balances) : balances[k].balance * EpsilonInverse < 0 - Scale}

\* C20 witness: a user met twice, and two creditors of which the first met
\* is owed less than the second.
C20_Witness ==
    /\ Aggregated
    /\ Len(DebtsIn(debts, currency)) > Len(balances) - 1
    /\ Len(creditors) = 2
    /\ balances[creditors[1]].balance < balances[creditors[2]].balance

\* The place in ds of the first debt in currency cur.
FirstIndex(ds, cur) ==
    CHOOSE k \in 1..Len(ds) :
        ds[k].currency = cur /\ \A m \in 1..(k - 1) : ds[m].currency # cur

\* C21. The settlements simplifyDebts returns come in one block per
\* currency, the blocks in the order in which the currencies first appear
\* in the debts: of two settlements in different currencies, the earlier
\* one is in the currency met first.
C21_BlockOrder ==
    SimplifyReturned =>
        \A p \in 1..Len(simplified), q \in 1..Len(simplified) :
            (p < q /\ simplified[p].currency # simplified[q].currency) =>
                FirstIndex(debts, simplified[p].currency)
                    < FirstIndex(debts, simplified[q].currency)

\* C22. On the net balances calculateNetBalances returns, the creditor
\* list (balance > 0.01) is empty exactly when the debtor list
\* (balance < -0.01) is.
C22_BothOrNeither ==
    Aggregated => (creditors = <<>> <=> debtors = <<>>)

\* The most iterations a loop over c creditors and d debtors may take.
MostIterations(c, d) == IF c >= 1 /\ d >= 1 THEN c + d - 1 ELSE 0

\* C23. Termination of the matching loop: each iteration moves the cursor
\* i or the cursor j forward (or both), no cursor moves back or beyond the
\* end of its list, and the loop takes at most c + d - 1 iterations over c
\* creditors and d debtors (none when a list is empty).
C23_Termination ==
    /\ [](pc = "while" =>
            /\ i <= Len(creditors) /\ j <= Len(debtors)
            /\ iterations <= MostIterations(Len(creditors), Len(debtors)))
    /\ [][(pc = "while" /\ iterations' = iterations + 1) =>
            /\ i' >= i /\ j' >= j
            /\ i' > i \/ j' > j]_vars

\* C23 witness: the loop over two creditors and two debtors has ended after
\* three iterations, one cursor at the end of its list.
C23_Witness ==
    /\ pc = "while" /\ ~MatchCond(Match)
    /\ Len(creditors) = 2 /\ Len(debtors) = 2
    /\ iterations = 3

\* A simplifyCurrencyDebts call has run its loop, or is running it.
Matching == op = "simplifyDebts" /\ currency # ""

\* C24. The matching loop leaves the records calculateNetBalances returned
\* alone: while and after it runs, each of them holds the balance the
\* aggregator computed.
C24_BalancesKept ==
    Matching => balances = NetBalances(debts, currency)

\* The report holds an issue about the total of a currency.
HasTotalIssue(rep) ==
    \E k \in 1..Len(rep.issues) : rep.issues[k].text = "Currency total should be zero"

\* C25. validateDebtMatrix reports no issue about the total of a currency,
\* whatever the debts, and reports a list in which every amount is above
\* zero as valid.
C25_NoTotalIssue ==
    ValidateReturned =>
        /\ ~HasTotalIssue(report)
        /\ (\A k \in 1..Len(debts) : debts[k].amount > 0) => report.isValid

\* C25 witness: debts of one currency whose amounts, all above zero, add up
\* to more than 0.01 were reported valid.
C25_Witness ==
    /\ ValidateReturned /\ report.isValid
    /\ Len(debts) >= 2
    /\ \A k \in 1..Len(debts) : debts[k].amount >= 12 /\ debts[k].currency = "USD"

\* C26. The four exported functions leave the arrays they are passed, and
\* the records in them, as they were, and what a call returns is what the
\* function gives for its arguments, whatever calls were made before it.
C26_Purity ==
    /\ [][debts' = debts /\ settlementsIn' = settlementsIn]_vars
    /\ [](/\ SimplifyReturned => simplified = simplifyDebts(debts)
          /\ OrderReturned => ordered = optimizeSettlementOrder(settlementsIn)
          /\ ExposureReturned => exposure = calculateUserExposure(userId, debts)
          /\ ValidateReturned => report = validateDebtMatrix(debts))

\* C26 witness: simplifyDebts has returned settlements after calls of the
\* three other functions had returned.
C26_Witness ==
    /\ SimplifyReturned /\ simplified # <<>>
    /\ ordered # <<>>
    /\ exposure # NoExposure
    /\ Len(report.issues) = 0 /\ Len(debts) = MaxDebts

\* The user's balance in bs is below -0.01, is above 0.01.
IsNetDebtor(bs, user) ==
    \E k \in 1..Len(bs) : bs[k].userId = user /\ LessThanMinusEpsilon(bs[k].balance)

IsNetCreditor(bs, user) ==
    \E k \in 1..Len(bs) : bs[k].userId = user /\ GreaterThanEpsilon(bs[k].balance)

\* C27. Every settlement simplifyDebts returns goes from a user whose net
\* balance in its currency is below -0.01 to a user whose net balance is
\* above 0.01; so nobody pays themself, and nobody both pays and receives
\* in one currency.
C27_Direction ==
    SimplifyReturned =>
        \A k \in 1..Len(simplified) :
            LET s == simplified[k]
                bs == NetBalances(debts, s.currency)
            IN  /\ IsNetDebtor(bs, s.from)
                /\ IsNetCreditor(bs, s.to)
                /\ s.from # s.to
                /\ \A m \in 1..Len(simplified) :
                      simplified[m].currency = s.currency => simplified[m].to # s.from

\* C27 witness: a user who owes in one debt and is owed more in others
\* receives a settlement.
C27_Witness ==
    /\ SimplifyReturned
    /\ \E k \in 1..Len(simplified), m \in 1..Len(debts) :
          /\ debts[m].from = simplified[k].to
          /\ debts[m].currency = simplified[k].currency
          /\ debts[m].amount > 0

RECURSIVE ExactAmounts(_, _)
\* The sum of the amounts of the settlements ss[k..], each the double its
\* hundredths denote, as a real number.
ExactAmounts(ss, k) ==
    IF k > Len(ss) THEN DoubleZero
    ELSE ExactSum(Hundredths(ss[k].amount), ExactAmounts(ss, k + 1))

\* What a user of net balance b owes in all, and is owed in all.
Owes(b) == IF b.neg THEN DoubleAbs(b) ELSE DoubleZero

IsOwed(b) == IF b.neg THEN DoubleZero ELSE b

\* Every debt is valid: its amount is above zero and it is not to oneself.
ValidDebts ==
    \A k \in 1..Len(debts) :
        DoubleLess(DoubleZero, debts[k].amount) /\ debts[k].from # debts[k].to

\* C28. No over-settlement, for valid debts whose amounts are whole
\* multiples of 0.01: for every user and currency the settlements the user
\* pays sum to no more than what the user's net balance says they owe, and
\* those they receive to no more than what it says they are owed; throughout
\* the matching loop no creditor's working balance is below zero and no
\* debtor's above zero.
C28_NoOverSettlement ==
    ValidDebts =>
        /\ SimplifyReturned =>
               \A cur \in CurrenciesOf(debts) :
                   LET bs == NetBalancesDouble(debts, cur) IN
                   \A k \in 1..Len(bs) :
                       /\ ~DoubleLess(Owes(bs[k].balance),
                              ExactAmounts(PaidBy(simplified, bs[k].userId, cur), 1))
                       /\ ~DoubleLess(IsOwed(bs[k].balance),
                              ExactAmounts(ReceivedBy(simplified, bs[k].userId, cur), 1))
        /\ pc = "while" =>
               /\ \A m \in 1..Len(creditors) :
                      ~DoubleLess(balances[creditors[m]].balance, DoubleZero)
               /\ \A m \in 1..Len(debtors) :
                      ~DoubleLess(DoubleZero, balances[debtors[m]].balance)

\* The transactions recorded for the account: one for each
\* updateAccountBalance call on it that returned success.
TransactionsOf(id) == {t \in 1..Len(transactions) : transactions[t].account_id = id}

RECURSIVE SumOfAmounts(_)
SumOfAmounts(ts) ==
    IF ts = {} THEN 0
    ELSE LET t == CHOOSE t \in ts : TRUE
         IN  transactions[t].amount + SumOfAmounts(ts \ {t})

\* No updateAccountBalance call on the account is under way.
NoUpdateUnderWay(id) ==
    \A c \in Clients : ~(calls[c].fn = "updateAccountBalance" /\ calls[c].accountId = id)

\* order lists the transactions ts one after the other, and each of them
\* recorded the balance that results from applying them in that order to a
\* balance of zero.
SerialOrder(ts, order) ==
    /\ {order[k] : k \in 1..Cardinality(ts)} = ts
    /\ \A k \in 1..Cardinality(ts) :
          transactions[order[k]].balance_after
              = SumOfAmounts({order[m] : m \in 1..k})

\* C29. Once the updateAccountBalance calls on an account (created with a
\* balance of zero) have returned, its balance is the sum of the amounts of
\* the calls that succeeded, and the balances recorded with the
\* transactions are those of some serial order of these calls.
C29_NoLostUpdate ==
    \A id \in 1..Len(accounts) :
        NoUpdateUnderWay(id) =>
            /\ accounts[id].balance = SumOfAmounts(TransactionsOf(id))
            /\ \E order \in [1..Cardinality(TransactionsOf(id)) -> TransactionsOf(id)] :
                  SerialOrder(TransactionsOf(id), order)

====
